---- MODULE Spec2Model ----
(***************************************************************************)
(* State-machine model of the pi-cam capture / streaming / recording core. *)
(*   USBCameraApp/app.py            camera service (FastAPI)               *)
(*   CameraController/controller/views.py   recording engine (Django)      *)
(* Request handlers are modelled per thread, one action per access to the  *)
(* shared process state, so that the interleavings the thread pool allows  *)
(* are the interleavings of the model.                                     *)
(***************************************************************************)
EXTENDS Integers, Sequences, FiniteSets, TLC

\* ------------------------------------------------------------------ bounds
NDev     == 2      \* video device numbers 0 .. NDev-1 (/dev/video<i>)
NAudio   == 1      \* named audio inputs 1 .. NAudio; 0 is the "default" path
NThreads == 2      \* request-handling threads of the camera service
MaxVal   == 1      \* setting values 1 .. MaxVal
NReq     == 2      \* request-handling threads of the Django controller
DEVICE_CACHE_TTL == 2   \* ttl of the device cache, in clock ticks
MaxOrphans == 2    \* relay processes counted as left behind (saturating)
MaxRec   == 2      \* AVRecorder objects created in one run
MaxLines == 2      \* lines a listing tool prints
MaxOpens == 2      \* successful opens of the output writer counted (saturating)

Devices   == 0 .. (NDev - 1)
AudioDevs == 1 .. NAudio
Threads   == 1 .. NThreads
Main      == CHOOSE t \in Threads : \A u \in Threads : t <= u   \* runs on_startup
Keys      == {"brightness", "contrast"}   \* two of the keys of CAMERA_PROPS
Vals      == 1 .. MaxVal
Unset     == 0                       \* key absent from a settings dict
IdxArgs   == -1 .. NDev              \* indices a client may send
ObjIds    == 1 .. (NThreads + 1)     \* Camera objects alive at one time
NoObj     == 0                       \* Python None
ReqThreads == 1 .. NReq
RecIds     == 1 .. MaxRec
MaxTime    == DEVICE_CACHE_TTL + 1     \* the clock runs 0 .. MaxTime

VARIABLES
  devState,                \* environment: device -> "ok" | "busy" | "absent"
  audioPresent,            \* environment: named audio inputs present
  detected_cameras,        \* app.py global
  detected_audio_devices,  \* app.py global
  settings_state,          \* app.py global
  camera,                  \* app.py global: id of the Camera object, or NoObj
  objs,                    \* heap of Camera objects
  current_idx,             \* app.py global
  cam_lock,                \* app.py global: holder thread, or 0
  audio_proc,              \* app.py global: relay process
  current_audio_idx,       \* app.py global
  audio_lock,              \* app.py global: holder thread, or 0
  orphans,                 \* relay processes alive that audio_proc no longer names
  now,                     \* environment: time.time()
  cache_writable,          \* environment: DEVICE_CACHE_PATH can be written
  cache_file,              \* the file at DEVICE_CACHE_PATH
  cached_from,             \* history: the lists given to the cache_devices that wrote it
  probed_at,               \* history: when the in-memory lists were discovered
  USING_FALLBACK,          \* app.py global
  fallback_cfg,            \* _fallback_bytes is non-empty
  started,                 \* on_startup has completed
  track,                   \* history is kept: requests record what they found
  last_ok_idx,             \* history: index of the last successful open_camera
  pc,                      \* per thread: position in its handler
  loc,                     \* per thread: locals of its handler
  av_recorder,             \* views.py global _av_recorder: recorder id, or NoObj
  recording_start_time,    \* views.py global _recording_start_time is set
  recs,                    \* the AVRecorder objects (thread and subprocess)
  rpc,                     \* per controller thread: position in its view
  rloc,                    \* per controller thread: locals of its view
  writer_accepts,          \* environment: fourcc codes cv2.VideoWriter opens with
  srec,                    \* a StreamRecorder and its position in _choose_fourcc
  probe                    \* a detect_audio_devices call: tool outputs and locals

vars == << devState, audioPresent, detected_cameras, detected_audio_devices,
           settings_state, camera, objs, current_idx, cam_lock, audio_proc,
           current_audio_idx, audio_lock, orphans, now, cache_writable,
           cache_file, cached_from, probed_at, USING_FALLBACK, fallback_cfg,
           started, track, last_ok_idx, pc, loc,
           av_recorder, recording_start_time, recs, rpc, rloc,
           writer_accepts, srec, probe >>

envVars   == << devState, audioPresent >>
audioVars == << audio_proc, current_audio_idx, audio_lock >>
listVars  == << detected_cameras, detected_audio_devices >>
codecVars == << writer_accepts, srec >>
recVars   == << av_recorder, recording_start_time, recs, rpc, rloc, codecVars >>
clockVars == << now, cache_writable >>
cacheVars == << cache_file, cached_from, probed_at >>
otherVars == << fallback_cfg, track, recVars, orphans, clockVars, cacheVars, probe >>   \* what no camera-service handler writes

\* ------------------------------------------------------------------ helpers
RECURSIVE Asc(_)
Asc(S) == IF S = {} THEN << >>
          ELSE LET m == CHOOSE x \in S : \A y \in S : x <= y
               IN  << m >> \o Asc(S \ {m})

\* Python list indexing: l[i] for 0 <= i < len(l)
InRange(i, l) == i >= 0 /\ i < Len(l)
At(l, i)      == l[i + 1]

FreeObj == [alloc |-> FALSE, source |-> 0,
            config |-> [k \in Keys |-> Unset], capture |-> "none"]

NoProc == [st |-> "none", dev |-> 0]

\* what a request finds when it arrives (history, kept with the request)
NoSnap == [idx |-> 0, open |-> FALSE, src |-> -1, aidx |-> 0, proc |-> NoProc,
           settings |-> [k \in Keys |-> Unset]]

\* a viewer's current pass of the loop in generate_frames: the session was
\* found absent or closed; the two values of ok (read, encode)
NoIter == [closed |-> FALSE, rd |-> "none", enc |-> "none"]

InitLoc == [op |-> "none", idx |-> 0, self |-> NoObj, key |-> "brightness",
            val |-> Unset, res |-> "none", resp |-> "none", opened |-> "na",
            rdret |-> "none", term |-> FALSE, stale |-> FALSE,
            applied |-> "na", accepted |-> "na", torn |-> FALSE, it |-> NoIter,
            snap |-> NoSnap]

\* Camera.is_opened (of the object the global names)
is_opened(o) == o.alloc /\ o.capture = "open"

camera_open == camera # NoObj /\ is_opened(objs[camera])

Snapshot ==
  IF track
    THEN [idx |-> current_idx, open |-> camera_open,
          src |-> IF camera_open THEN objs[camera].source ELSE -1,
          aidx |-> current_audio_idx, proc |-> audio_proc,
          settings |-> settings_state]
    ELSE NoSnap

\* capture handles that are open in the process
OpenHandles == { i \in ObjIds : objs[i].alloc /\ objs[i].capture = "open" }

\* CPython reference counting: a Camera object nobody names any more is
\* deallocated at once, and cv2.VideoCapture's deallocation releases it.
\* The heap is kept in a canonical numbering (the objects in the order in which
\* the global and then the threads name them), so that object identity, not
\* the number an object happens to get, distinguishes states.
RefList(cam, l) == << cam >> \o [t \in 1 .. NThreads |-> l[t].self]

RECURSIVE Uniq(_, _)
Uniq(s, acc) ==
  IF s = << >> THEN acc
  ELSE LET h == Head(s) IN
       Uniq(Tail(s), IF h = NoObj \/ \E k \in 1 .. Len(acc) : acc[k] = h
                       THEN acc ELSE Append(acc, h))

Rank(order, i) == IF i = NoObj THEN NoObj ELSE CHOOSE k \in 1 .. Len(order) : order[k] = i

\* the heap o, the global cam and the locals l after deallocation of what is
\* no longer named
Install(o, cam, l) ==
  LET order == Uniq(RefList(cam, l), << >>) IN
  /\ objs'   = [j \in ObjIds |-> IF j <= Len(order) THEN o[order[j]] ELSE FreeObj]
  /\ camera' = Rank(order, cam)
  /\ loc'    = [t \in Threads |-> [l[t] EXCEPT !.self = Rank(order, l[t].self)]]

NewObjId == CHOOSE i \in ObjIds : ~objs[i].alloc /\ \A j \in ObjIds : (~objs[j].alloc) => i <= j

\* ------------------------------------------------------------------ discovery
\* detect_cameras: indices that open, ascending, then paths that exist and are
\* not yet listed, ascending.
cameras_of(ds) ==
  LET first  == Asc({ d \in Devices : ds[d] = "ok" })
      second == Asc({ d \in Devices : ds[d] = "busy" })
      all    == first \o second
  IN  [ i \in 1 .. Len(all) |-> [id |-> all[i], path |-> all[i]] ]

detect_cameras == cameras_of(devState)

\* detect_audio_devices: the named inputs found, then the "default" entry.
audio_of(present) ==
  LET named == Asc(present)
      all   == named \o << 0 >>
  IN  [ i \in 1 .. Len(all) |-> [id |-> i - 1, path |-> all[i]] ]

detect_audio_devices == audio_of(audioPresent)

\* ------------------------------------------------------------------ device cache
\* json.dump of a descriptor list: a JSON array of objects, each object its
\* members as key / value pairs in insertion order
json_dump_reversed(l) == [ i \in 1 .. Len(l) |->
                            LET d == l[Len(l) + 1 - i]
                            IN  << << "id", d.id >>, << "path", d.path >> >> ]

json_dump(l) == [ i \in 1 .. Len(l) |-> << << "id", l[i].id >>, << "path", l[i].path >> >> ]

\* json.load: every object becomes a dict, looked up by key
Member(obj, k) == LET j == CHOOSE j \in 1 .. Len(obj) : obj[j][1] = k IN obj[j][2]

json_load(a) == [ i \in 1 .. Len(a) |-> [id |-> Member(a[i], "id"), path |-> Member(a[i], "path")] ]

NoFile == [exists |-> FALSE, timestamp |-> 0, cameras |-> << >>, audio_devices |-> << >>]

\* the document cache_devices writes at time ts
CacheDoc(ts, cameras, audio_devices) ==
  [exists |-> TRUE, timestamp |-> ts, cameras |-> json_dump(cameras),
   audio_devices |-> json_dump(audio_devices)]

\* cache_devices: the file after the call; a failure to write is logged and
\* leaves the file as it was
cache_devices(cameras, audio_devices) ==
  IF cache_writable THEN CacheDoc(now, cameras, audio_devices) ELSE cache_file

\* time.time() - data['timestamp'] < DEVICE_CACHE_TTL
CacheFresh == cache_file.exists /\ now - cache_file.timestamp < DEVICE_CACHE_TTL

load_cached_devices ==
  IF CacheFresh
    THEN << json_load(cache_file.cameras), json_load(cache_file.audio_devices) >>
    ELSE << << >>, << >> >>


\* ------------------------------------------------------------------ control
Step(t, p, l) == /\ pc'  = [pc  EXCEPT ![t] = p]
                 /\ loc' = [loc EXCEPT ![t] = l]

\* what the caller of open_camera does with its result r
OcNextPc(t, r) ==
  CASE loc[t].op = "viewer"  -> IF r = "IndexError" THEN "gf_raised" ELSE "gf_check"
    [] loc[t].op = "startup" -> "su_audio"
    [] OTHER                 -> "done"

\* switch_camera (app.py 526-536) and restart (581-584) turn it into a response
OcResp(t, r) ==
  CASE loc[t].op = "switch"  -> IF r = "True" THEN "200"
                                ELSE IF r = "IndexError" THEN "400" ELSE "500"
    [] loc[t].op = "restart" -> IF r = "True" THEN "200"
                                ELSE IF r = "False" THEN "200_failed" ELSE "500"
    [] OTHER                 -> "none"

OcDone(t, r, l) ==
  IF loc[t].op = "viewer" THEN [InitLoc EXCEPT !.op = "viewer"]
  ELSE [l EXCEPT !.res = r, !.resp = OcResp(t, r)]

OcFinish(t, r, l) == Step(t, OcNextPc(t, r), OcDone(t, r, l))

\* ------------------------------------------------------------------ refresh_devices
rd_cams(t) ==
  /\ pc[t] = "rd_cams"
  /\ detected_cameras' = detect_cameras
  /\ Step(t, "rd_audio", loc[t])
  /\ UNCHANGED << envVars, detected_audio_devices, settings_state, camera, objs,
                  current_idx, cam_lock, audioVars, USING_FALLBACK, otherVars,
                  started, last_ok_idx >>

rd_audio(t) ==
  /\ pc[t] = "rd_audio"
  /\ detected_audio_devices' = detect_audio_devices
  /\ cache_file' = cache_devices(detected_cameras, detect_audio_devices)
  /\ cached_from' = IF cache_writable
                      THEN << detected_cameras, detect_audio_devices >>
                      ELSE cached_from
  /\ probed_at' = now
  /\ Step(t, loc[t].rdret,
          [loc[t] EXCEPT !.rdret = "none",
                         !.resp = IF loc[t].op = "refresh" THEN "200" ELSE loc[t].resp])
  /\ UNCHANGED << envVars, detected_cameras, settings_state, camera, objs,
                  current_idx, cam_lock, audioVars, USING_FALLBACK, fallback_cfg,
                  track, recVars, probe, orphans, clockVars, started, last_ok_idx >>

\* POST /refresh-devices
api_refresh_devices(t) ==
  /\ pc[t] = "idle" /\ started
  /\ Step(t, "rd_cams", [InitLoc EXCEPT !.op = "refresh", !.rdret = "done"])
  /\ UNCHANGED << envVars, listVars, settings_state, camera, objs, current_idx,
                  cam_lock, audioVars, USING_FALLBACK, otherVars, started,
                  last_ok_idx >>

\* ------------------------------------------------------------------ open_camera
oc_detect(t) ==
  /\ pc[t] = "oc_detect"
  /\ IF detected_cameras = << >>
       THEN Step(t, "rd_cams", [loc[t] EXCEPT !.rdret = "oc_check"])
       ELSE Step(t, "oc_check", loc[t])
  /\ UNCHANGED << envVars, listVars, settings_state, camera, objs, current_idx,
                  cam_lock, audioVars, USING_FALLBACK, otherVars, started,
                  last_ok_idx >>

oc_check(t) ==
  /\ pc[t] = "oc_check"
  /\ IF ~InRange(loc[t].idx, detected_cameras)
       THEN /\ OcFinish(t, "IndexError", loc[t])
            /\ UNCHANGED current_idx
       ELSE /\ current_idx' = loc[t].idx
            /\ Step(t, "oc_close", loc[t])
  /\ UNCHANGED << envVars, listVars, settings_state, camera, objs,
                  cam_lock, audioVars, USING_FALLBACK, otherVars, started,
                  last_ok_idx >>

\* Camera.close
close_keeps_handle(o) == o

close(o) == [o EXCEPT !.capture = "none"]

oc_close(t) ==
  /\ pc[t] = "oc_close"
  /\ objs' = IF camera # NoObj THEN [objs EXCEPT ![camera] = close(@)] ELSE objs
  /\ Step(t, "oc_new", loc[t])
  /\ UNCHANGED << envVars, listVars, settings_state, camera, current_idx,
                  cam_lock, audioVars, USING_FALLBACK, otherVars, started,
                  last_ok_idx >>

\* Camera(detected_cameras[idx]["path"], settings_state): Camera.__init__ and
\* _init_camera on the fresh object; any exception ends open_camera with False
oc_new(t) ==
  /\ pc[t] = "oc_new"
  /\ IF ~InRange(loc[t].idx, detected_cameras)
       THEN /\ OcFinish(t, "False", loc[t])
            /\ UNCHANGED << objs, camera >>
       ELSE LET path == At(detected_cameras, loc[t].idx).path IN
            IF devState[path] = "ok"
              THEN /\ pc' = [pc EXCEPT ![t] = "oc_assign"]
                   /\ Install([objs EXCEPT ![NewObjId] =
                                 [alloc |-> TRUE, source |-> path,
                                  config |-> settings_state, capture |-> "open"]],
                              camera,
                              [loc EXCEPT ![t] = [loc[t] EXCEPT !.self = NewObjId,
                                                                !.opened = "yes"]])
              ELSE /\ OcFinish(t, "False", [loc[t] EXCEPT !.opened = "no"])
                   /\ UNCHANGED << objs, camera >>
  /\ UNCHANGED << envVars, listVars, settings_state, current_idx,
                  cam_lock, audioVars, USING_FALLBACK, otherVars, started,
                  last_ok_idx >>

\* camera = <the new object>; return True
oc_assign(t) ==
  /\ pc[t] = "oc_assign"
  /\ last_ok_idx' = loc[t].idx
  /\ pc' = [pc EXCEPT ![t] = OcNextPc(t, "True")]
  /\ Install(objs, loc[t].self,
             [loc EXCEPT ![t] = OcDone(t, "True", [loc[t] EXCEPT !.self = NoObj])])
  /\ UNCHANGED << envVars, listVars, settings_state, current_idx,
                  cam_lock, audioVars, USING_FALLBACK, otherVars, started >>

\* POST /switch/{idx}
switch_camera(t, i) ==
  /\ pc[t] = "idle" /\ started
  /\ Step(t, "oc_detect", [InitLoc EXCEPT !.op = "switch", !.idx = i, !.snap = Snapshot])
  /\ UNCHANGED << envVars, listVars, settings_state, camera, objs, current_idx,
                  cam_lock, audioVars, USING_FALLBACK, otherVars, started,
                  last_ok_idx >>

\* POST /restart
restart(t) ==
  /\ pc[t] = "idle" /\ started
  /\ Step(t, "oc_detect", [InitLoc EXCEPT !.op = "restart", !.idx = current_idx])
  /\ UNCHANGED << envVars, listVars, settings_state, camera, objs, current_idx,
                  cam_lock, audioVars, USING_FALLBACK, otherVars, started,
                  last_ok_idx >>

\* the response has been sent
Return(t) ==
  /\ pc[t] = "done"
  /\ Step(t, "idle", InitLoc)
  /\ UNCHANGED << envVars, listVars, settings_state, camera, objs, current_idx,
                  cam_lock, audioVars, USING_FALLBACK, otherVars, started,
                  last_ok_idx >>


\* ------------------------------------------------------------------ settings
\* Camera.apply_settings: False on a closed session; on an open one every
\* recognised key of config is written, and the driver may reject a write
\* (accept = FALSE).  With no recognised key in config nothing is written.
apply_settings(o, accept) ==
  IF ~is_opened(o) THEN FALSE
  ELSE IF \A k \in Keys : o.config[k] = Unset THEN TRUE
  ELSE accept

\* Camera._init_camera on an existing object (from _reinit): release the old
\* capture, open self.source; ok = the open succeeded
reinit(o, ok) == [o EXCEPT !.capture = IF ok THEN "open" ELSE "none"]

\* POST /settings/{setting}: settings_state[setting] = val, then
\* camera.update({setting: val}) if camera else False
set_one(t, k, v) ==
  /\ pc[t] = "idle" /\ started
  /\ settings_state' = [settings_state EXCEPT ![k] = v]
  /\ IF camera = NoObj
       THEN Step(t, "done", [InitLoc EXCEPT !.op = "set_one", !.key = k, !.val = v,
                                            !.res = "False", !.resp = "200",
                                            !.snap = Snapshot])
       ELSE Step(t, "up_merge", [InitLoc EXCEPT !.op = "set_one", !.key = k, !.val = v,
                                                !.self = camera, !.snap = Snapshot])
  /\ UNCHANGED << envVars, listVars, camera, objs, current_idx, cam_lock,
                  audioVars, USING_FALLBACK, otherVars, started, last_ok_idx >>

lock_always_free(l) == TRUE

\* threading.Lock: it can be acquired when no thread holds it
lock_free(l) == l = 0

\* Camera.update: self.config.update(new)
up_merge(t) ==
  /\ pc[t] = "up_merge"
  /\ objs' = [objs EXCEPT ![loc[t].self].config[loc[t].key] = loc[t].val]
  /\ Step(t, "up_lock", loc[t])
  /\ UNCHANGED << envVars, listVars, settings_state, camera, current_idx, cam_lock,
                  audioVars, USING_FALLBACK, otherVars, started, last_ok_idx >>

\* with cam_lock:
up_lock(t) ==
  /\ pc[t] = "up_lock"
  /\ lock_free(cam_lock)
  /\ cam_lock' = t
  /\ Step(t, "up_apply", loc[t])
  /\ UNCHANGED << envVars, listVars, settings_state, camera, objs, current_idx,
                  audioVars, USING_FALLBACK, otherVars, started, last_ok_idx >>

always_reinit(applied) == TRUE

\* a or b: b is evaluated only when a is false
needs_reinit(applied) == ~applied

\* self.apply_settings() or ...
up_apply(t) ==
  /\ pc[t] = "up_apply"
  /\ \E accept \in BOOLEAN :
       LET applied == apply_settings(objs[loc[t].self], accept) IN
       IF needs_reinit(applied)
         THEN Step(t, "up_reinit",
                   [loc[t] EXCEPT !.applied = IF applied THEN "True" ELSE "False",
                                  !.accepted = IF applied THEN "True" ELSE "False"])
         ELSE Step(t, "up_unlock", [loc[t] EXCEPT !.res = "True", !.applied = "True",
                                                  !.accepted = "True"])
  /\ UNCHANGED << envVars, listVars, settings_state, camera, objs, current_idx,
                  cam_lock, audioVars, USING_FALLBACK, otherVars, started,
                  last_ok_idx >>

\* ... or self._reinit()
reinit_always_false(ok) == "False"

reinit_result(ok) == IF ok THEN "True" ELSE "False"

\* (_init_camera ends with self.apply_settings(), whose result it drops;
\* accepted: the handle the update leaves has taken every write)
up_reinit(t) ==
  /\ pc[t] = "up_reinit"
  /\ LET ok == devState[objs[loc[t].self].source] = "ok" IN
       /\ objs' = [objs EXCEPT ![loc[t].self] = reinit(@, ok)]
       /\ \E accept \in BOOLEAN :
            LET written == apply_settings(reinit(objs[loc[t].self], ok), accept) IN
            Step(t, "up_unlock", [loc[t] EXCEPT !.res = reinit_result(ok),
                                                !.opened = IF ok THEN "yes" ELSE "no",
                                                !.accepted = IF written THEN "True"
                                                             ELSE "False"])
  /\ UNCHANGED << envVars, listVars, settings_state, camera, current_idx, cam_lock,
                  audioVars, USING_FALLBACK, otherVars, started, last_ok_idx >>

\* leaving the with block; set_one answers {"applied": <result>}
up_unlock(t) ==
  /\ pc[t] = "up_unlock"
  /\ cam_lock' = 0
  /\ pc' = [pc EXCEPT ![t] = "done"]
  /\ Install(objs, camera,
             [loc EXCEPT ![t] = [loc[t] EXCEPT !.self = NoObj, !.resp = "200"]])
  /\ UNCHANGED << envVars, listVars, settings_state, current_idx,
                  audioVars, USING_FALLBACK, otherVars, started, last_ok_idx >>

\* POST /reload_settings: camera.apply_settings() with no lock taken
reload_settings(t) ==
  /\ pc[t] = "idle" /\ started
  /\ IF camera = NoObj
       THEN Step(t, "done", [InitLoc EXCEPT !.op = "reload", !.resp = "503"])
       ELSE Step(t, "rl_apply", [InitLoc EXCEPT !.op = "reload", !.self = camera])
  /\ UNCHANGED << envVars, listVars, settings_state, camera, objs, current_idx,
                  cam_lock, audioVars, USING_FALLBACK, otherVars, started,
                  last_ok_idx >>

rl_apply(t) ==
  /\ pc[t] = "rl_apply"
  /\ \E accept \in BOOLEAN :
       LET ok == apply_settings(objs[loc[t].self], accept) IN
       /\ pc' = [pc EXCEPT ![t] = "done"]
       /\ Install(objs, camera,
                  [loc EXCEPT ![t] = [loc[t] EXCEPT !.self = NoObj,
                                        !.res = IF ok THEN "True" ELSE "False",
                                        !.resp = IF ok THEN "200" ELSE "500"]])
  /\ UNCHANGED << envVars, listVars, settings_state, current_idx,
                  cam_lock, audioVars, USING_FALLBACK, otherVars, started,
                  last_ok_idx >>


\* ------------------------------------------------------------------ open_audio
\* switch_audio (app.py 607-617) turns the result into a response; on_startup
\* ignores it
OaResp(t, r) ==
  CASE loc[t].op = "switch_audio" -> IF r = "True" THEN "200"
                                     ELSE IF r = "IndexError" THEN "400" ELSE "500"
    [] OTHER                      -> "none"

OaFinish(t, r) ==
  /\ Step(t, "done", [loc[t] EXCEPT !.res = r, !.resp = OaResp(t, r)])
  /\ started' = (started \/ loc[t].op = "startup")

oa_detect(t) ==
  /\ pc[t] = "oa_detect"
  /\ IF detected_audio_devices = << >>
       THEN Step(t, "rd_cams", [loc[t] EXCEPT !.rdret = "oa_check"])
       ELSE Step(t, "oa_check", loc[t])
  /\ UNCHANGED << envVars, listVars, settings_state, camera, objs, current_idx,
                  cam_lock, audioVars, USING_FALLBACK, otherVars, started,
                  last_ok_idx >>

oa_check(t) ==
  /\ pc[t] = "oa_check"
  /\ IF ~InRange(loc[t].idx, detected_audio_devices)
       THEN OaFinish(t, "IndexError")
       ELSE Step(t, "oa_lock", loc[t]) /\ UNCHANGED started
  /\ UNCHANGED << envVars, listVars, settings_state, camera, objs, current_idx,
                  cam_lock, audioVars, USING_FALLBACK, otherVars, last_ok_idx >>

\* with audio_lock:
oa_lock(t) ==
  /\ pc[t] = "oa_lock"
  /\ audio_lock = 0
  /\ audio_lock' = t
  /\ Step(t, "oa_term", loc[t])
  /\ UNCHANGED << envVars, listVars, settings_state, camera, objs, current_idx,
                  cam_lock, audio_proc, current_audio_idx, USING_FALLBACK,
                  otherVars, started, last_ok_idx >>

\* if audio_proc and audio_proc.poll() is None: terminate(); wait(timeout=2)
\* (wait raises TimeoutExpired when the relay has not exited in time; the
\* exception leaves the with block and open_audio)
wait_skipped(p) == p

timeout_keeps_lock(l) == l

\* TimeoutExpired leaves the with audio_lock block, which releases the lock
timeout_unwinds(l) == 0

\* the relay once audio_proc.wait(timeout=2) has returned
waited(p) == [p EXCEPT !.st = "dead"]

oa_term(t) ==
  /\ pc[t] = "oa_term"
  /\ IF audio_proc.st = "alive"
       THEN \E exited \in BOOLEAN :
              IF exited
                THEN /\ audio_proc' = waited(audio_proc)
                     /\ Step(t, "oa_popen", [loc[t] EXCEPT !.term = TRUE])
                     /\ UNCHANGED << audio_lock, started >>
                ELSE /\ audio_lock' = timeout_unwinds(audio_lock)
                     /\ OaFinish(t, "TimeoutExpired")
                     /\ UNCHANGED audio_proc
       ELSE /\ Step(t, "oa_popen", loc[t])
            /\ UNCHANGED << audio_proc, audio_lock, started >>
  /\ UNCHANGED << envVars, listVars, settings_state, camera, objs, current_idx,
                  cam_lock, current_audio_idx, USING_FALLBACK, otherVars,
                  last_ok_idx >>

\* dev = detected_audio_devices[idx]["path"]; subprocess.Popen(cmd, ...)
\* (spawned = FALSE: Popen raised, open_audio returns False)
oa_popen(t) ==
  /\ pc[t] = "oa_popen"
  /\ audio_lock' = 0
  /\ IF ~InRange(loc[t].idx, detected_audio_devices)
       THEN /\ OaFinish(t, "IndexError")
            /\ UNCHANGED << audio_proc, current_audio_idx, orphans >>
       ELSE \E spawned \in BOOLEAN :
              IF spawned
                THEN /\ audio_proc' = [st |-> "alive",
                                       dev |-> At(detected_audio_devices, loc[t].idx).path]
                     /\ orphans' = IF audio_proc.st = "alive" /\ orphans < MaxOrphans
                                     THEN orphans + 1 ELSE orphans
                     /\ current_audio_idx' = loc[t].idx
                     /\ OaFinish(t, "True")
                ELSE /\ OaFinish(t, "False")
                     /\ UNCHANGED << audio_proc, current_audio_idx, orphans >>
  /\ UNCHANGED << envVars, listVars, settings_state, camera, objs, current_idx,
                  cam_lock, USING_FALLBACK, fallback_cfg, track, recVars, probe,
                  clockVars, cacheVars, last_ok_idx >>

\* POST /switch-audio/{idx}
switch_audio(t, i) ==
  /\ pc[t] = "idle" /\ started
  /\ Step(t, "oa_detect", [InitLoc EXCEPT !.op = "switch_audio", !.idx = i,
                                      !.snap = Snapshot])
  /\ UNCHANGED << envVars, listVars, settings_state, camera, objs, current_idx,
                  cam_lock, audioVars, USING_FALLBACK, otherVars, started,
                  last_ok_idx >>

\* GET /cameras: {"sources": detected_cameras, "active_idx": current_idx}
\* (stale: the lists returned were discovered DEVICE_CACHE_TTL or more ago)
list_cameras(t) ==
  /\ pc[t] = "idle" /\ started
  /\ Step(t, "done", [InitLoc EXCEPT !.op = "list_cameras", !.resp = "200",
                                     !.stale = (now - probed_at >= DEVICE_CACHE_TTL)])
  /\ UNCHANGED << envVars, listVars, settings_state, camera, objs, current_idx,
                  cam_lock, audioVars, USING_FALLBACK, otherVars, started,
                  last_ok_idx >>

\* a refresh_devices call has assigned detected_cameras and has not yet
\* assigned detected_audio_devices
MidRefresh == \E u \in Threads : pc[u] = "rd_audio"

\* GET /health: the response reports len(detected_cameras) and
\* len(detected_audio_devices)
\* (torn: the two lists it read are not of the same refresh_devices call)
health(t) ==
  /\ pc[t] = "idle" /\ started
  /\ Step(t, "done", [InitLoc EXCEPT !.op = "health", !.resp = "200",
                                     !.torn = MidRefresh])
  /\ UNCHANGED << envVars, listVars, settings_state, camera, objs, current_idx,
                  cam_lock, audioVars, USING_FALLBACK, otherVars, started,
                  last_ok_idx >>

\* GET /stream/audio: 503 if not audio_proc or audio_proc.stdout is None
\* (stdout is a pipe for every relay the service has spawned)
stream_audio(t) ==
  /\ pc[t] = "idle" /\ started
  /\ Step(t, "done", [InitLoc EXCEPT !.op = "stream_audio", !.snap = Snapshot,
                                     !.resp = IF audio_proc.st = "none" THEN "503"
                                              ELSE "200"])
  /\ UNCHANGED << envVars, listVars, settings_state, camera, objs, current_idx,
                  cam_lock, audioVars, USING_FALLBACK, otherVars, started,
                  last_ok_idx >>

\* ------------------------------------------------------------------ generate_frames
camVarsButLoc == << envVars, listVars, settings_state, camera, objs, current_idx,
                    cam_lock, audioVars, otherVars, started, last_ok_idx >>

\* GET /stream: a viewer starts pulling from generate_frames()
stream(t) ==
  /\ pc[t] = "idle" /\ started
  /\ Step(t, "gf_check", [InitLoc EXCEPT !.op = "viewer"])
  /\ UNCHANGED << camVarsButLoc, USING_FALLBACK >>

\* if not camera or not camera.is_opened(): with a fallback image the
\* fallback chunk is yielded, without one the loop only sleeps
gf_check(t) ==
  /\ pc[t] = "gf_check"
  /\ IF ~camera_open
       THEN IF fallback_cfg
              THEN /\ USING_FALLBACK' = TRUE
                   /\ Step(t, "gf_fb", [loc[t] EXCEPT !.it = [NoIter EXCEPT !.closed = TRUE]])
              ELSE /\ Step(t, "gf_sleep", [loc[t] EXCEPT !.it = [NoIter EXCEPT !.closed = TRUE]])
                   /\ UNCHANGED USING_FALLBACK
       ELSE /\ Step(t, "gf_lock", [loc[t] EXCEPT !.it = NoIter])
            /\ UNCHANGED USING_FALLBACK
  /\ UNCHANGED camVarsButLoc

\* the consumer has taken the fallback chunk and the reconnect delay is over:
\* open_camera(current_idx)
gf_reopen(t) ==
  /\ pc[t] = "gf_fb"
  /\ Step(t, "oc_detect", [loc[t] EXCEPT !.idx = current_idx, !.opened = "na",
                                         !.res = "none"])
  /\ UNCHANGED << camVarsButLoc, USING_FALLBACK >>

\* time.sleep(RECONNECT_DELAY); continue
gf_sleep(t) ==
  /\ pc[t] = "gf_sleep"
  /\ Step(t, "gf_check", loc[t])
  /\ UNCHANGED << camVarsButLoc, USING_FALLBACK >>

release_skipped(l) == l

\* leaving a with cam_lock block
release(l) == 0

\* with cam_lock:
gf_lock(t) ==
  /\ pc[t] = "gf_lock"
  /\ lock_free(cam_lock)
  /\ cam_lock' = t
  /\ Step(t, "gf_read", loc[t])
  /\ UNCHANGED << envVars, listVars, settings_state, camera, objs, current_idx,
                  audioVars, USING_FALLBACK, otherVars, started, last_ok_idx >>

\* camera.read_frame(): (False, None) on a closed session, else capture.read()
\* is entered
gf_read(t) ==
  /\ pc[t] = "gf_read"
  /\ IF ~camera_open
       THEN /\ cam_lock' = release(cam_lock)
            /\ Step(t, "gf_sleep", [loc[t] EXCEPT !.it.rd = "fail"])
       ELSE /\ Step(t, "gf_reading", [loc[t] EXCEPT !.self = camera])
            /\ UNCHANGED cam_lock
  /\ UNCHANGED << envVars, listVars, settings_state, camera, objs, current_idx,
                  audioVars, USING_FALLBACK, otherVars, started, last_ok_idx >>

\* capture.read() returns and the with block is left.  The read delivers a
\* frame if the handle is open on a working device; on a handle that was
\* released under it the outcome is not defined (either result).
read_frame(o, dev, any) ==
  IF is_opened(o) THEN dev = "ok" ELSE any

gf_reading(t) ==
  /\ pc[t] = "gf_reading"
  /\ cam_lock' = release(cam_lock)
  /\ \E any \in BOOLEAN :
       LET o  == objs[loc[t].self]
           ok == read_frame(o, devState[o.source], any) IN
       /\ pc' = [pc EXCEPT ![t] = IF ok THEN "gf_encode" ELSE "gf_sleep"]
       /\ Install(objs, camera,
                  [loc EXCEPT ![t] = [loc[t] EXCEPT !.self = NoObj,
                     !.it.rd = IF ok THEN "ok" ELSE "fail"]])
  /\ UNCHANGED << envVars, listVars, settings_state, current_idx,
                  audioVars, USING_FALLBACK, otherVars, started, last_ok_idx >>

\* USING_FALLBACK = False; cv2.imencode: a failed encode continues the loop,
\* a good one yields the live chunk
emit_always(encoded) == "gf_live"

\* if not ok: continue; else the live chunk is yielded
after_encode(encoded) == IF encoded THEN "gf_live" ELSE "gf_check"

gf_encode(t) ==
  /\ pc[t] = "gf_encode"
  /\ USING_FALLBACK' = FALSE
  /\ \E encoded \in BOOLEAN :
       Step(t, after_encode(encoded),
            [loc[t] EXCEPT !.it.enc = IF encoded THEN "ok" ELSE "fail"])
  /\ UNCHANGED camVarsButLoc

\* the consumer has taken the live chunk
gf_next(t) ==
  /\ pc[t] = "gf_live"
  /\ Step(t, "gf_check", loc[t])
  /\ UNCHANGED << camVarsButLoc, USING_FALLBACK >>

\* the connection is closed while the generator is suspended at a yield
gf_disconnect(t) ==
  /\ pc[t] \in {"gf_fb", "gf_live"}
  /\ Step(t, "idle", InitLoc)
  /\ UNCHANGED << camVarsButLoc, USING_FALLBACK >>

\* ------------------------------------------------------------------ on_startup
su_begin(t) ==
  /\ t = Main /\ pc[t] = "idle" /\ ~started
  /\ LET cached == load_cached_devices IN
       IF cached[1] # << >> /\ cached[2] # << >>
         THEN /\ detected_cameras' = cached[1]
              /\ detected_audio_devices' = cached[2]
              /\ probed_at' = cache_file.timestamp
              /\ Step(t, "su_env", [InitLoc EXCEPT !.op = "startup"])
         ELSE /\ Step(t, "rd_cams", [InitLoc EXCEPT !.op = "startup",
                                                    !.rdret = "su_env"])
              /\ UNCHANGED << listVars, probed_at >>
  /\ UNCHANGED << envVars, settings_state, camera, objs, current_idx,
                  cam_lock, audioVars, USING_FALLBACK, fallback_cfg, track,
                  recVars, probe, orphans, clockVars, cache_file, cached_from, started,
                  last_ok_idx >>

\* settings_state[key] = float(os.getenv(...)) for the keys the environment
\* sets; generate_fallback(); if detected_cameras: open_camera(0)
su_env(t, D) ==
  /\ pc[t] = "su_env"
  /\ \E defaults \in D : settings_state' = defaults
  /\ IF detected_cameras # << >>
       THEN Step(t, "oc_detect", [loc[t] EXCEPT !.idx = 0])
       ELSE Step(t, "su_audio", loc[t])
  /\ UNCHANGED << envVars, listVars, camera, objs, current_idx, cam_lock,
                  audioVars, USING_FALLBACK, otherVars, started, last_ok_idx >>

\* if detected_audio_devices: open_audio(0)
su_audio(t) ==
  /\ pc[t] = "su_audio"
  /\ IF detected_audio_devices # << >>
       THEN /\ Step(t, "oa_detect", [loc[t] EXCEPT !.idx = 0, !.opened = "na",
                                                   !.res = "none"])
            /\ UNCHANGED started
       ELSE /\ Step(t, "done", loc[t])
            /\ started' = TRUE
  /\ UNCHANGED << envVars, listVars, settings_state, camera, objs, current_idx,
                  cam_lock, audioVars, USING_FALLBACK, otherVars, last_ok_idx >>

\* ------------------------------------------------------------------ environment
\* a video device is plugged, unplugged, or taken / given back by another process
EnvDevice(S) ==
  /\ \E d \in Devices, s \in S :
       /\ devState[d] # s
       /\ devState' = [devState EXCEPT ![d] = s]
  /\ UNCHANGED << audioPresent, listVars, settings_state, camera, objs,
                  current_idx, cam_lock, audioVars, USING_FALLBACK, otherVars,
                  started, last_ok_idx, pc, loc >>

\* a named audio input appears or disappears
EnvAudio ==
  /\ \E a \in AudioDevs :
       audioPresent' = IF a \in audioPresent THEN audioPresent \ {a}
                       ELSE audioPresent \cup {a}
  /\ UNCHANGED << devState, listVars, settings_state, camera, objs,
                  current_idx, cam_lock, audioVars, USING_FALLBACK, otherVars,
                  started, last_ok_idx, pc, loc >>

\* time passes
Tick ==
  /\ now < MaxTime
  /\ now' = now + 1
  /\ UNCHANGED << envVars, cache_writable, cacheVars, listVars, settings_state,
                  camera, objs, current_idx, cam_lock, audioVars, orphans,
                  USING_FALLBACK, fallback_cfg, track, recVars, probe, started,
                  last_ok_idx, pc, loc >>

\* the cache file's directory becomes read-only, or writable again
EnvCache ==
  /\ cache_writable' = ~cache_writable
  /\ UNCHANGED << envVars, now, cacheVars, listVars, settings_state,
                  camera, objs, current_idx, cam_lock, audioVars, orphans,
                  USING_FALLBACK, fallback_cfg, track, recVars, probe, started,
                  last_ok_idx, pc, loc >>

\* the relay subprocess exits (by itself, or after a terminate it was slow to obey)
RelayExit ==
  /\ audio_proc.st = "alive"
  /\ audio_proc' = [audio_proc EXCEPT !.st = "dead"]
  /\ UNCHANGED << envVars, listVars, settings_state, camera, objs, current_idx,
                  cam_lock, current_audio_idx, audio_lock, USING_FALLBACK,
                  otherVars, started, last_ok_idx, pc, loc >>

\* An AVRecorder: st is where its thread and its ffmpeg subprocess are
\*   "created"   constructed, start() not yet called (not alive, proc None)
\*   "started"   thread started, run() has not reached Popen (alive, proc None)
\*   "running"   subprocess spawned and alive, thread in proc.wait()
\*   "exited"    subprocess has exited, thread not yet finished
\*   "finished"  thread finished
\*   "aborted"   Popen raised, thread finished with proc None
\* term: terminate() has been sent; stopped: stop_recording has answered
\* 'stopped' for it (history)
FreeRec == [st |-> "free", term |-> FALSE, stopped |-> FALSE]

InitRLoc == [op |-> "none", rec |-> NoObj, resp |-> "none", idle |-> FALSE,
             is_recording |-> FALSE, last_video_url |-> FALSE, live |-> FALSE]

camVarsButCodec ==
  << envVars, listVars, settings_state, camera, objs, current_idx, cam_lock,
     audioVars, orphans, clockVars, cacheVars, USING_FALLBACK, fallback_cfg,
     started, track, last_ok_idx, pc, loc, probe >>

camVars == << envVars, listVars, settings_state, camera, objs, current_idx,
              cam_lock, audioVars, orphans, clockVars, cacheVars, codecVars, USING_FALLBACK, fallback_cfg, started, track,
              last_ok_idx, pc, loc, probe >>

\* no StreamRecorder has been constructed
\* (at: position in run; cap, writer: the locals of run, "none" for None,
\* "closed" for an object that is not opened; handles: captures and writers
\* that are open; writer_opens: successful opens of the output writer)
NoRecorder == [output_path |-> << >>, pc |-> "none", i |-> 0, fourcc |-> "none",
               at |-> "none", cap |-> "none", writer |-> "none",
               stop_event |-> FALSE, handles |-> 0, writer_opens |-> 0]

\* a listing tool that has not been run
NoTool == [found |-> FALSE, returncode |-> 0, stdout |-> << >>]

\* no detect_audio_devices call is in progress
NoProbe ==
  probe = [pc |-> "none", arecord |-> NoTool, pactl |-> NoTool, i |-> 0,
           current_device |-> "", devices |-> << >>]

CodecGlobals ==
  /\ srec = NoRecorder
  /\ writer_accepts = [c \in {"avc1", "H264"} |-> FALSE]

RecGlobals ==
  /\ av_recorder = NoObj
  /\ recording_start_time = FALSE
  /\ recs = [r \in RecIds |-> FreeRec]
  /\ rpc = [t \in ReqThreads |-> "idle"]
  /\ rloc = [t \in ReqThreads |-> InitRLoc]

\* ------------------------------------------------------------------ initial state
\* the module globals of app.py as the import leaves them (lines 72-85)
Globals ==
  /\ detected_cameras = << >>
  /\ detected_audio_devices = << >>
  /\ settings_state = [k \in Keys |-> Unset]
  /\ camera = NoObj
  /\ objs = [i \in ObjIds |-> FreeObj]
  /\ current_idx = 0
  /\ cam_lock = 0
  /\ audio_proc = NoProc
  /\ current_audio_idx = 0
  /\ audio_lock = 0
  /\ orphans = 0
  /\ now = 0
  /\ probed_at = 0
  /\ USING_FALLBACK = FALSE
  /\ started = FALSE
  /\ last_ok_idx = -1
  /\ pc = [t \in Threads |-> "idle"]
  /\ loc = [t \in Threads |-> InitLoc]

\* no cache file has been left by an earlier run, and the file can be written
NoCache ==
  /\ cache_file = NoFile
  /\ cached_from = << << >>, << >> >>
  /\ cache_writable = TRUE

\* ------------------------------------------------------------------ Spec:
\* the video side of the service, one request at a time: every handler runs to
\* its response before the next request or environment change
Quiet == \A t \in Threads : pc[t] = "idle"

Init ==
  /\ Globals /\ RecGlobals /\ NoCache /\ CodecGlobals /\ NoProbe
  /\ devState \in [Devices -> {"ok", "busy", "absent"}]
  /\ audioPresent = AudioDevs
  /\ fallback_cfg = TRUE
  /\ track = TRUE

Next ==
  \/ \E t \in {Main} :
       \/ su_begin(t) \/ su_env(t, [Keys -> Vals \cup {Unset}]) \/ su_audio(t)
       \/ rd_cams(t) \/ rd_audio(t) \/ api_refresh_devices(t)
       \/ oc_detect(t) \/ oc_check(t) \/ oc_close(t) \/ oc_new(t) \/ oc_assign(t)
       \/ \E i \in IdxArgs : switch_camera(t, i)
       \/ restart(t)
       \/ \E k \in Keys, v \in Vals : set_one(t, k, v)
       \/ up_merge(t) \/ up_lock(t) \/ up_apply(t) \/ up_reinit(t) \/ up_unlock(t)
       \/ reload_settings(t) \/ rl_apply(t)
       \/ oa_detect(t) \/ oa_check(t) \/ oa_lock(t) \/ oa_term(t) \/ oa_popen(t)
       \/ Return(t)
  \/ (Quiet /\ EnvDevice({"ok", "busy", "absent"}))

Spec == Init /\ [][Next]_vars


\* ------------------------------------------------------------------ SpecIdx:
\* as Spec, with a fixed set of devices and one discovery (at startup): the
\* requests are switches, restarts and settings updates, one at a time
InitIdx ==
  /\ Globals /\ RecGlobals /\ NoCache /\ CodecGlobals /\ NoProbe
  /\ devState \in [Devices -> {"ok", "busy"}]
  /\ audioPresent = AudioDevs
  /\ fallback_cfg = TRUE
  /\ track = TRUE

NextIdx ==
  \E t \in {Main} :
    \/ su_begin(t) \/ su_env(t, [Keys -> Vals \cup {Unset}]) \/ su_audio(t)
    \/ rd_cams(t) \/ rd_audio(t)
    \/ oc_detect(t) \/ oc_check(t) \/ oc_close(t) \/ oc_new(t) \/ oc_assign(t)
    \/ \E i \in IdxArgs : switch_camera(t, i)
    \/ restart(t)
    \/ \E k \in Keys, v \in Vals : set_one(t, k, v)
    \/ up_merge(t) \/ up_lock(t) \/ up_apply(t) \/ up_reinit(t) \/ up_unlock(t)
    \/ oa_detect(t) \/ oa_check(t) \/ oa_lock(t) \/ oa_term(t) \/ oa_popen(t)
    \/ Return(t)

SpecIdx == InitIdx /\ [][NextIdx]_vars

\* ------------------------------------------------------------------ SpecSet:
\* after startup every thread serves POST /settings/{setting} requests, whose
\* steps interleave; the clients send different values for the same key
SetVals == 1 .. (MaxVal + 1)

InitSet ==
  /\ Globals /\ RecGlobals /\ NoCache /\ CodecGlobals /\ NoProbe
  /\ devState \in [Devices -> {"ok", "busy"}]
  /\ audioPresent = AudioDevs
  /\ fallback_cfg = TRUE
  /\ track = FALSE

NextSet ==
  \E t \in Threads :
    \/ su_begin(t) \/ su_env(t, {[k \in Keys |-> Unset]}) \/ su_audio(t)
    \/ rd_cams(t) \/ rd_audio(t)
    \/ oc_detect(t) \/ oc_check(t) \/ oc_close(t) \/ oc_new(t) \/ oc_assign(t)
    \/ oa_detect(t) \/ oa_check(t) \/ oa_lock(t) \/ oa_term(t) \/ oa_popen(t)
    \/ \E k \in Keys, v \in SetVals : set_one(t, k, v)
    \/ up_merge(t) \/ up_lock(t) \/ up_apply(t) \/ up_reinit(t) \/ up_unlock(t)
    \/ Return(t)

SpecSet == InitSet /\ [][NextSet]_vars

\* ------------------------------------------------------------------ SpecConc:
\* the video side with the thread pool: any thread takes any request, and the
\* steps of different handlers interleave
InitConc ==
  /\ Globals /\ RecGlobals /\ NoCache /\ CodecGlobals /\ NoProbe
  /\ devState \in [Devices -> {"ok", "busy"}]
  /\ audioPresent = AudioDevs
  /\ fallback_cfg = TRUE
  /\ track = FALSE

NextConc ==
  \/ \E t \in Threads :
       \/ su_begin(t) \/ su_env(t, {[k \in Keys |-> Unset]}) \/ su_audio(t)
       \/ rd_cams(t) \/ rd_audio(t)
       \/ oc_detect(t) \/ oc_check(t) \/ oc_close(t) \/ oc_new(t) \/ oc_assign(t)
       \/ \E i \in Devices : switch_camera(t, i)
       \/ restart(t)
       \/ set_one(t, "brightness", 1)
       \/ up_merge(t) \/ up_lock(t) \/ up_apply(t) \/ up_reinit(t) \/ up_unlock(t)
       \/ reload_settings(t) \/ rl_apply(t)
       \/ oa_detect(t) \/ oa_check(t) \/ oa_lock(t) \/ oa_term(t) \/ oa_popen(t)
       \/ stream(t) \/ gf_check(t) \/ gf_reopen(t) \/ gf_sleep(t) \/ gf_lock(t)
       \/ gf_read(t) \/ gf_reading(t) \/ gf_encode(t) \/ gf_next(t)
       \/ gf_disconnect(t)
       \/ Return(t)

SpecConc == InitConc /\ [][NextConc]_vars

\* ------------------------------------------------------------------ SpecDev:
\* camera and audio switches of one client, while other threads serve
\* POST /refresh-devices and the set of attached devices changes
InitDev ==
  /\ Globals /\ RecGlobals /\ NoCache /\ CodecGlobals /\ NoProbe
  /\ devState \in [Devices -> {"ok", "absent"}]
  /\ audioPresent \in SUBSET AudioDevs
  /\ fallback_cfg = TRUE
  /\ track = TRUE

NextDev ==
  \/ \E t \in Threads :
       \/ su_begin(t) \/ su_env(t, {[k \in Keys |-> Unset]}) \/ su_audio(t)
       \/ rd_cams(t) \/ rd_audio(t)
       \/ oc_detect(t) \/ oc_check(t) \/ oc_close(t) \/ oc_new(t) \/ oc_assign(t)
       \/ oa_detect(t) \/ oa_check(t) \/ oa_lock(t) \/ oa_term(t) \/ oa_popen(t)
       \/ Return(t)
  \/ \E i \in IdxArgs : switch_camera(Main, i)
  \/ \E i \in IdxArgs : switch_audio(Main, i)
  \/ \E t \in Threads \ {Main} : api_refresh_devices(t)
  \/ EnvDevice({"ok", "absent"})
  \/ EnvAudio

SpecDev == InitDev /\ [][NextDev]_vars

\* ------------------------------------------------------------------ SpecGen:
\* viewers that keep pulling from generate_frames while devices come and go;
\* no switch, restart or settings request is issued.  Every thread that can
\* take a step eventually does (the thread pool runs every handler and the
\* consumer keeps asking for the next chunk), and JPEG encoding does not fail
\* forever.
InitGen ==
  /\ Globals /\ RecGlobals /\ NoCache /\ CodecGlobals /\ NoProbe
  /\ devState \in [Devices -> {"ok", "busy", "absent"}]
  /\ audioPresent = AudioDevs
  /\ fallback_cfg \in BOOLEAN
  /\ track = FALSE

GenStep(t) ==
  \/ su_begin(t) \/ su_env(t, {[k \in Keys |-> Unset]}) \/ su_audio(t)
  \/ rd_cams(t) \/ rd_audio(t)
  \/ oc_detect(t) \/ oc_check(t) \/ oc_close(t) \/ oc_new(t) \/ oc_assign(t)
  \/ oa_detect(t) \/ oa_check(t) \/ oa_lock(t) \/ oa_term(t) \/ oa_popen(t)
  \/ gf_check(t) \/ gf_reopen(t) \/ gf_sleep(t) \/ gf_lock(t)
  \/ gf_read(t) \/ gf_reading(t) \/ gf_encode(t) \/ gf_next(t)
  \/ Return(t)

Viewers == Threads \ {Main}

NextGen ==
  \/ \E t \in Threads : GenStep(t)
  \/ \E t \in Viewers : stream(t)
  \/ EnvDevice({"ok", "busy", "absent"})

Encoded(t) == gf_encode(t) /\ pc'[t] = "gf_live"

SpecGen ==
  /\ InitGen
  /\ [][NextGen]_vars
  /\ \A t \in Threads : WF_vars(GenStep(t)) /\ SF_vars(Encoded(t))
  /\ \A t \in Viewers : WF_vars(stream(t))

\* ------------------------------------------------------------------ SpecView:
\* any number of simultaneous viewers: after startup every thread may serve
\* GET /stream, while devices fail and recover
NextView ==
  \/ \E t \in Threads :
       \/ su_begin(t) \/ su_env(t, {[k \in Keys |-> Unset]}) \/ su_audio(t)
       \/ rd_cams(t) \/ rd_audio(t)
       \/ oc_detect(t) \/ oc_check(t) \/ oc_close(t) \/ oc_new(t) \/ oc_assign(t)
       \/ oa_detect(t) \/ oa_check(t) \/ oa_lock(t) \/ oa_term(t) \/ oa_popen(t)
       \/ stream(t) \/ gf_check(t) \/ gf_reopen(t) \/ gf_sleep(t) \/ gf_lock(t)
       \/ gf_read(t) \/ gf_reading(t) \/ gf_encode(t) \/ gf_next(t)
       \/ gf_disconnect(t)
       \/ Return(t)
  \/ EnvDevice({"ok", "busy"})

SpecView == InitConc /\ [][NextView]_vars

\* ------------------------------------------------------------------ SpecStale:
\* one client issues POST /switch/{idx} requests, one after the other, on the
\* first thread while the other threads serve viewers and devices fail and
\* recover
InitStale ==
  /\ Globals /\ RecGlobals /\ NoCache /\ CodecGlobals /\ NoProbe
  /\ devState \in [Devices -> {"ok", "busy"}]
  /\ audioPresent = AudioDevs
  /\ fallback_cfg = TRUE
  /\ track = FALSE

NextStale ==
  \/ \E t \in Threads :
       \/ su_begin(t) \/ su_env(t, {[k \in Keys |-> Unset]}) \/ su_audio(t)
       \/ rd_cams(t) \/ rd_audio(t)
       \/ oc_detect(t) \/ oc_check(t) \/ oc_close(t) \/ oc_new(t) \/ oc_assign(t)
       \/ oa_detect(t) \/ oa_check(t) \/ oa_lock(t) \/ oa_term(t) \/ oa_popen(t)
       \/ gf_check(t) \/ gf_reopen(t) \/ gf_sleep(t) \/ gf_lock(t)
       \/ gf_read(t) \/ gf_reading(t) \/ gf_encode(t) \/ gf_next(t)
       \/ gf_disconnect(t)
       \/ Return(t)
  \/ \E i \in Devices : switch_camera(Main, i)
  \/ \E t \in Threads \ {Main} : stream(t)
  \/ EnvDevice({"ok", "busy"})

SpecStale == InitStale /\ [][NextStale]_vars

\* ------------------------------------------------------------------ SpecLock:
\* after startup the first thread serves POST /settings/brightness, the
\* others GET /stream, and all of them POST /switch-audio/0, so that requests
\* and viewers contend for cam_lock and audio_lock, while devices fail and recover.  A thread inside a with block keeps running (every device
\* and subprocess call returns), and a thread blocked in acquire() is woken
\* when the lock is released.
InitLock ==
  /\ Globals /\ RecGlobals /\ NoCache /\ CodecGlobals /\ NoProbe
  /\ devState \in [Devices -> {"ok", "busy"}]
  /\ audioPresent = AudioDevs
  /\ fallback_cfg = TRUE
  /\ track = FALSE

\* the steps a thread takes between acquiring a lock and releasing it
Holding(t) ==
  \/ up_apply(t) \/ up_reinit(t) \/ up_unlock(t)
  \/ gf_read(t) \/ gf_reading(t)
  \/ oa_term(t) \/ oa_popen(t)

NextLock ==
  \/ \E t \in Threads :
       \/ su_begin(t) \/ su_env(t, {[k \in Keys |-> Unset]}) \/ su_audio(t)
       \/ rd_cams(t) \/ rd_audio(t)
       \/ oc_detect(t) \/ oc_check(t) \/ oc_close(t) \/ oc_new(t) \/ oc_assign(t)
       \/ oa_detect(t) \/ oa_check(t) \/ oa_lock(t)
       \/ up_merge(t) \/ up_lock(t)
       \/ gf_check(t) \/ gf_reopen(t) \/ gf_sleep(t) \/ gf_lock(t)
       \/ gf_encode(t) \/ gf_next(t) \/ gf_disconnect(t)
       \/ switch_audio(t, 0)
       \/ Holding(t)
       \/ Return(t)
  \/ set_one(Main, "brightness", MaxVal)
  \/ \E t \in Viewers : stream(t)
  \/ EnvDevice({"ok", "busy"})

SpecLock ==
  /\ InitLock
  /\ [][NextLock]_vars
  /\ \A t \in Threads :
       /\ WF_vars(Holding(t))
       /\ SF_vars(up_lock(t)) /\ SF_vars(gf_lock(t)) /\ SF_vars(oa_lock(t))

\* ------------------------------------------------------------------ SpecAudio:
\* the audio relay with the thread pool: startup, then any thread serves
\* /switch-audio and /stream/audio while the relay may exit by itself
InitAudio ==
  /\ Globals /\ RecGlobals /\ NoCache /\ CodecGlobals /\ NoProbe
  /\ devState = [d \in Devices |-> "ok"]
  /\ audioPresent = AudioDevs
  /\ fallback_cfg = TRUE
  /\ track = FALSE

NextAudio ==
  \/ \E t \in Threads :
       \/ su_begin(t) \/ su_env(t, {[k \in Keys |-> Unset]}) \/ su_audio(t)
       \/ rd_cams(t) \/ rd_audio(t)
       \/ oc_detect(t) \/ oc_check(t) \/ oc_close(t) \/ oc_new(t) \/ oc_assign(t)
       \/ oa_detect(t) \/ oa_check(t) \/ oa_lock(t) \/ oa_term(t) \/ oa_popen(t)
       \/ \E i \in IdxArgs : switch_audio(t, i)
       \/ stream_audio(t)
       \/ Return(t)
  \/ RelayExit

SpecAudio == InitAudio /\ [][NextAudio]_vars

\* the same, with every request recording what it found when it arrived
InitAudioObs ==
  /\ Globals /\ RecGlobals /\ NoCache /\ CodecGlobals /\ NoProbe
  /\ devState = [d \in Devices |-> "ok"]
  /\ audioPresent = AudioDevs
  /\ fallback_cfg = TRUE
  /\ track = TRUE

SpecAudioObs == InitAudioObs /\ [][NextAudio]_vars

\* ------------------------------------------------------------------ SpecCache:
\* the device registry over time, one request at a time: the service starts
\* with whatever cache file an earlier run has left, time passes, devices come
\* and go, and the file may become unwritable
PrevFiles ==
  { [exists |-> TRUE, timestamp |-> ts, cameras |-> json_dump(cameras_of(ds)),
     audio_devices |-> json_dump(audio_of(ap))] :
      ts \in {0 - DEVICE_CACHE_TTL, 0}, ds \in [Devices -> {"ok", "absent"}],
      ap \in {AudioDevs} }

InitCache ==
  /\ Globals /\ RecGlobals /\ CodecGlobals /\ NoProbe
  /\ devState \in [Devices -> {"ok", "absent"}]
  /\ audioPresent = AudioDevs
  /\ fallback_cfg = TRUE
  /\ track = FALSE
  /\ cache_writable = TRUE
  /\ cache_file \in {NoFile} \cup PrevFiles
  /\ cached_from = << json_load(cache_file.cameras), json_load(cache_file.audio_devices) >>

NextCache ==
  \/ \E t \in {Main} :
       \/ su_begin(t) \/ su_env(t, {[k \in Keys |-> Unset]}) \/ su_audio(t)
       \/ rd_cams(t) \/ rd_audio(t) \/ api_refresh_devices(t)
       \/ oc_detect(t) \/ oc_check(t) \/ oc_close(t) \/ oc_new(t) \/ oc_assign(t)
       \/ oa_detect(t) \/ oa_check(t) \/ oa_lock(t) \/ oa_term(t) \/ oa_popen(t)
       \/ switch_camera(t, 0)
       \/ list_cameras(t)
       \/ Return(t)
  \/ (Quiet /\ Tick)
  \/ (Quiet /\ EnvDevice({"ok", "absent"}))
  \/ (Quiet /\ EnvCache)

SpecCache == InitCache /\ [][NextCache]_vars

\* ------------------------------------------------------------------ SpecRefresh:
\* after startup one thread serves POST /refresh-devices, one request after
\* another, while the other threads serve GET /health and devices come and go
InitRefresh ==
  /\ Globals /\ RecGlobals /\ NoCache /\ CodecGlobals /\ NoProbe
  /\ devState \in [Devices -> {"ok", "absent"}]
  /\ audioPresent \in SUBSET AudioDevs
  /\ fallback_cfg = TRUE
  /\ track = FALSE

NextRefresh ==
  \/ \E t \in {Main} :
       \/ su_begin(t) \/ su_env(t, {[k \in Keys |-> Unset]}) \/ su_audio(t)
       \/ oc_detect(t) \/ oc_check(t) \/ oc_close(t) \/ oc_new(t) \/ oc_assign(t)
       \/ oa_detect(t) \/ oa_check(t) \/ oa_lock(t) \/ oa_term(t) \/ oa_popen(t)
       \/ rd_cams(t) \/ rd_audio(t) \/ api_refresh_devices(t)
  \/ \E t \in Threads \ {Main} : health(t)
  \/ \E t \in Threads : Return(t)
  \/ EnvDevice({"ok", "absent"})
  \/ EnvAudio

SpecRefresh == InitRefresh /\ [][NextRefresh]_vars

\* ------------------------------------------------------------------ detect_audio_devices
\* Sequences of s of length at most n
SeqUpTo(S, n) == UNION { [1 .. k -> S] : k \in 0 .. n }

\* a line of "arecord -L": indent is line.startswith(" "), text is line.strip()
AlsaLines ==
  { [indent |-> FALSE, text |-> x] : x \in {"", "null", "hw:1", "default"} }
    \cup { [indent |-> TRUE, text |-> "hw:1"] }

\* a stripped line of "pactl list sources": the key it starts with and the
\* stripped rest of the line
PulseLines ==
  { [key |-> "Name:", rest |-> x] : x \in {"", "hw:1", "usb.monitor", "default"} }
    \cup { [key |-> "Description:", rest |-> "Microphone"] }

\* what subprocess.run of a listing tool can give: FileNotFoundError
\* (found = FALSE), a non-zero return code, or return code 0 with the output
ToolRuns(Lines) ==
  { [found |-> FALSE, returncode |-> 0, stdout |-> << >>],
    [found |-> TRUE,  returncode |-> 1, stdout |-> << >>] }
    \cup { [found |-> TRUE, returncode |-> 0, stdout |-> o] : o \in SeqUpTo(Lines, MaxLines) }

\* current_device.startswith("null")
startswith_null(x) == x = "null"

\* "monitor" in current_device.lower()
is_monitor(x) == x = "usb.monitor"

\* [d["path"] for d in devices]
paths(devices) == { devices[i].path : i \in 1 .. Len(devices) }

\* devices.append({"id": len(devices), "path": path, ..., "type": type})
append(devices, path, type) ==
  Append(devices, [id |-> Len(devices), path |-> path, type |-> type])

\* the body of the loop over the lines of arecord
alsa_line(devices, line) ==
  IF ~line.indent /\ line.text # "" /\ ~startswith_null(line.text)
    THEN append(devices, line.text, "alsa")
    ELSE devices

\* the body of the loop over the lines of pactl (None as "")
pulse_line(p, line) ==
  IF line.key = "Name:"
    THEN [p EXCEPT !.current_device = line.rest]
  ELSE IF line.key = "Description:" /\ p.current_device # ""
    THEN [p EXCEPT !.current_device = "",
                   !.devices = IF ~is_monitor(p.current_device)
                                  /\ p.current_device \notin paths(p.devices)
                                 THEN append(p.devices, p.current_device, "pulse")
                                 ELSE p.devices]
  ELSE p

probeUnchanged == << envVars, listVars, settings_state, camera, objs, current_idx,
                     cam_lock, audioVars, orphans, clockVars, cacheVars,
                     USING_FALLBACK, fallback_cfg, started, track, last_ok_idx,
                     pc, loc, recVars >>

\* subprocess.run(["arecord", "-L"], ...) inside try / except FileNotFoundError
da_arecord ==
  /\ probe.pc = "start"
  /\ probe' = IF probe.arecord.found /\ probe.arecord.returncode = 0
                  /\ probe.arecord.stdout # << >>
                THEN [probe EXCEPT !.pc = "alsa", !.i = 1]
                ELSE [probe EXCEPT !.pc = "pactl"]
  /\ UNCHANGED probeUnchanged

\* for line in proc.stdout.splitlines(): (arecord)
da_alsa ==
  /\ probe.pc = "alsa"
  /\ LET p == [probe EXCEPT !.devices = alsa_line(@, probe.arecord.stdout[probe.i])] IN
       probe' = IF probe.i < Len(probe.arecord.stdout)
                  THEN [p EXCEPT !.i = @ + 1]
                  ELSE [p EXCEPT !.pc = "pactl"]
  /\ UNCHANGED probeUnchanged

\* subprocess.run(["pactl", "list", "sources"], ...) inside try / except
\* FileNotFoundError
da_pactl ==
  /\ probe.pc = "pactl"
  /\ probe' = IF probe.pactl.found /\ probe.pactl.returncode = 0
                  /\ probe.pactl.stdout # << >>
                THEN [probe EXCEPT !.pc = "pulse", !.i = 1, !.current_device = ""]
                ELSE [probe EXCEPT !.pc = "default"]
  /\ UNCHANGED probeUnchanged

\* for line in proc.stdout.splitlines(): (pactl)
da_pulse ==
  /\ probe.pc = "pulse"
  /\ LET p == pulse_line(probe, probe.pactl.stdout[probe.i]) IN
       probe' = IF probe.i < Len(probe.pactl.stdout)
                  THEN [p EXCEPT !.i = @ + 1]
                  ELSE [p EXCEPT !.pc = "default"]
  /\ UNCHANGED probeUnchanged

\* if not any(d["path"] == "default" for d in devices): devices.append(...);
\* return devices
da_default ==
  /\ probe.pc = "default"
  /\ probe' = [probe EXCEPT !.pc = "returned",
                 !.devices = IF "default" \in paths(@) THEN @
                             ELSE append(@, "default", "default")]
  /\ UNCHANGED probeUnchanged

\* ------------------------------------------------------------------ SpecProbe:
\* one call of detect_audio_devices, whatever the two listing tools do
InitProbe ==
  /\ Globals /\ RecGlobals /\ NoCache /\ CodecGlobals
  /\ devState = [d \in Devices |-> "ok"]
  /\ audioPresent = AudioDevs
  /\ fallback_cfg = TRUE
  /\ track = FALSE
  /\ \E a \in ToolRuns(AlsaLines), b \in ToolRuns(PulseLines) :
       probe = [pc |-> "start", arecord |-> a, pactl |-> b, i |-> 0,
                current_device |-> "", devices |-> << >>]

NextProbe == da_arecord \/ da_alsa \/ da_pactl \/ da_pulse \/ da_default

SpecProbe == InitProbe /\ [][NextProbe]_vars

\* ================================================================== views.py
RStep(t, p, l) == /\ rpc'  = [rpc  EXCEPT ![t] = p]
                  /\ rloc' = [rloc EXCEPT ![t] = l]

\* Thread.is_alive()
is_alive(r) == r.st \in {"started", "running", "exited"}

\* proc and proc.poll() is None
proc_running(r) == r.st = "running"

\* start_recording's test of the recorder it finds: refuse only if its thread
\* is alive and its FFmpeg is still running
already_recording(r) == is_alive(r) /\ proc_running(r)

UsedRecs == { r \in RecIds : recs[r].st # "free" }

\* POST record/start
start_recording(t) ==
  /\ rpc[t] = "idle"
  /\ RStep(t, "sr_check", [InitRLoc EXCEPT !.op = "start"])
  /\ UNCHANGED << camVars, av_recorder, recording_start_time, recs >>

\* if _av_recorder: ... return 'Already recording' / _av_recorder = None
sr_check(t) ==
  /\ rpc[t] = "sr_check"
  /\ IF av_recorder # NoObj /\ already_recording(recs[av_recorder])
       THEN /\ RStep(t, "done", [rloc[t] EXCEPT !.resp = "400_already"])
            /\ UNCHANGED av_recorder
       ELSE /\ av_recorder' = NoObj
            /\ RStep(t, "sr_fetch", rloc[t])
  /\ UNCHANGED << camVars, recording_start_time, recs >>

\* the audio sources are fetched from the camera service and audio_idx is
\* validated against them (valid = FALSE: 'Invalid audio_idx' / 'out of range')
sr_fetch(t) ==
  /\ rpc[t] = "sr_fetch"
  /\ \E valid \in BOOLEAN :
       IF valid THEN RStep(t, "sr_create", rloc[t])
       ELSE RStep(t, "done", [rloc[t] EXCEPT !.resp = "400"])
  /\ UNCHANGED << camVars, av_recorder, recording_start_time, recs >>

\* _av_recorder = AVRecorder(...)
sr_create(t) ==
  /\ rpc[t] = "sr_create"
  /\ Cardinality(UsedRecs) < MaxRec
  /\ LET r == CHOOSE x \in RecIds : x \notin UsedRecs /\ \A y \in RecIds \ UsedRecs : x <= y IN
       /\ recs' = [recs EXCEPT ![r] = [FreeRec EXCEPT !.st = "created"]]
       /\ av_recorder' = r
  /\ RStep(t, "sr_start", rloc[t])
  /\ UNCHANGED << camVars, recording_start_time >>

\* _av_recorder.start(); _recording_start_time = datetime.now(); 'started'
\* (on None or on a thread already started the call raises: 500)
sr_start(t) ==
  /\ rpc[t] = "sr_start"
  /\ IF av_recorder # NoObj /\ recs[av_recorder].st = "created"
       THEN /\ recs' = [recs EXCEPT ![av_recorder].st = "started"]
            /\ recording_start_time' = TRUE
            /\ RStep(t, "done", [rloc[t] EXCEPT !.rec = av_recorder, !.resp = "200"])
       ELSE /\ RStep(t, "done", [rloc[t] EXCEPT !.resp = "500"])
            /\ UNCHANGED << recs, recording_start_time >>
  /\ UNCHANGED << camVars, av_recorder >>

\* AVRecorder.run: self.proc = subprocess.Popen(cmd, ...)
\* (spawned = FALSE: Popen raises and the thread ends)
run_popen(r) ==
  /\ recs[r].st = "started"
  /\ \E spawned \in BOOLEAN :
       recs' = [recs EXCEPT ![r].st = IF spawned THEN "running" ELSE "aborted"]
  /\ UNCHANGED << camVars, av_recorder, recording_start_time, rpc, rloc >>

\* the ffmpeg subprocess exits: after a terminate, or by itself
proc_exit(r) ==
  /\ recs[r].st = "running"
  /\ recs' = [recs EXCEPT ![r].st = "exited"]
  /\ UNCHANGED << camVars, av_recorder, recording_start_time, rpc, rloc >>

\* AVRecorder.run: self.proc.wait() returns and run() ends
run_end(r) ==
  /\ recs[r].st = "exited"
  /\ recs' = [recs EXCEPT ![r].st = "finished"]
  /\ UNCHANGED << camVars, av_recorder, recording_start_time, rpc, rloc >>

\* no session is in progress: there is no recorder, or the recorder's
\* subprocess has exited (or was never spawned because Popen raised)
EngineIdle ==
  av_recorder = NoObj \/ recs[av_recorder].st \in {"exited", "finished", "aborted"}

\* POST record/stop
stop_recording(t) ==
  /\ rpc[t] = "idle"
  /\ RStep(t, "st_check", [InitRLoc EXCEPT !.op = "stop"])
  /\ UNCHANGED << camVars, av_recorder, recording_start_time, recs >>

\* if not _av_recorder: 'Not recording'; outpath = _av_recorder.output_path
st_check(t) ==
  /\ rpc[t] = "st_check"
  /\ IF av_recorder = NoObj
       THEN RStep(t, "done", [rloc[t] EXCEPT !.resp = "400_not", !.idle = TRUE])
       ELSE RStep(t, "st_proc", [rloc[t] EXCEPT !.rec = av_recorder,
                                                !.idle = EngineIdle])
  /\ UNCHANGED << camVars, av_recorder, recording_start_time, recs >>

\* AVRecorder.stop: if self.proc and self.proc.poll() is None: terminate()
stop(r) == IF proc_running(r) THEN [r EXCEPT !.term = TRUE] ELSE r

\* proc = getattr(_av_recorder, 'proc', None);
\* if proc and proc.poll() is None: _av_recorder.stop(); _av_recorder.join()
st_proc(t) ==
  /\ rpc[t] = "st_proc"
  /\ IF av_recorder # NoObj /\ proc_running(recs[av_recorder])
       THEN /\ recs' = [recs EXCEPT ![av_recorder] = stop(@)]
            /\ RStep(t, "st_join", [rloc[t] EXCEPT !.rec = av_recorder])
       ELSE /\ RStep(t, "st_clear", rloc[t])
            /\ UNCHANGED recs
  /\ UNCHANGED << camVars, av_recorder, recording_start_time >>

\* join() returns when the recorder's thread has finished
st_join(t) ==
  /\ rpc[t] = "st_join"
  /\ ~is_alive(recs[rloc[t].rec])
  /\ RStep(t, "st_clear", rloc[t])
  /\ UNCHANGED << camVars, av_recorder, recording_start_time, recs >>

\* _av_recorder = None; _recording_start_time = None; 'stopped'
st_clear(t) ==
  /\ rpc[t] = "st_clear"
  /\ av_recorder' = NoObj
  /\ recording_start_time' = FALSE
  /\ recs' = [recs EXCEPT ![rloc[t].rec].stopped = TRUE]
  /\ RStep(t, "done", [rloc[t] EXCEPT !.resp = "200"])
  /\ UNCHANGED camVars

\* the response has been sent
\* views.py globals _recording_thread and _recording_path: None at import,
\* and no statement of the module assigns them
recording_thread == NoObj

recording_path == NoObj

\* GET camera (the status page): is_recording and last_video_url of its
\* context (last_video_url: a URL was computed)
\* (live: the recorder that _av_recorder names has a live worker thread)
camera_view(t) ==
  /\ rpc[t] = "idle"
  /\ LET is_recording == recording_thread # NoObj /\ is_alive(recs[recording_thread]) IN
       RStep(t, "done",
             [InitRLoc EXCEPT !.op = "camera", !.resp = "200",
                !.is_recording = is_recording,
                !.last_video_url = (recording_path # NoObj /\ ~is_recording),
                !.live = (av_recorder # NoObj /\ is_alive(recs[av_recorder]))])
  /\ UNCHANGED << camVars, av_recorder, recording_start_time, recs >>

RReturn(t) ==
  /\ rpc[t] = "done"
  /\ RStep(t, "idle", InitRLoc)
  /\ UNCHANGED << camVars, av_recorder, recording_start_time, recs >>

\* ========================================================= stream_recorder.py
\* paths and extensions are strings, here sequences of characters
Upper == << "A", "B", "E", "I", "M", "P", "V", "W" >>
Lower == << "a", "b", "e", "i", "m", "p", "v", "w" >>

\* str.lower
lower(str) ==
  [ i \in 1 .. Len(str) |->
      IF \E k \in 1 .. Len(Upper) : Upper[k] = str[i]
        THEN Lower[CHOOSE k \in 1 .. Len(Upper) : Upper[k] = str[i]]
        ELSE str[i] ]

\* str.rfind, counting from 1 (0: not found)
rfind(str, c) ==
  IF \E i \in 1 .. Len(str) : str[i] = c
    THEN CHOOSE i \in 1 .. Len(str) :
           str[i] = c /\ \A j \in (i + 1) .. Len(str) : str[j] # c
    ELSE 0

\* os.path.splitext(path)[1]: from the last dot of the last component, unless
\* only dots precede it in that component
splitext_ext(path) ==
  LET sepIndex == rfind(path, "/")
      dotIndex == rfind(path, ".")
  IN  IF dotIndex > sepIndex
         /\ \E k \in (sepIndex + 1) .. (dotIndex - 1) : path[k] # "."
        THEN SubSeq(path, dotIndex, Len(path))
        ELSE << >>

OutputPaths ==
  { << "a", ".", "m", "p", "4" >>, << "a", ".", "M", "P", "4" >>,
    << "a", ".", "M", "p", "4" >>, << "b", ".", "a", ".", "m", "p", "4" >>,
    << "a", ".", "w", "e", "b", "m" >>, << "a", ".", "W", "E", "B", "M" >>,
    << "a", ".", "m", "p", "4", ".", "w", "e", "b", "m" >>,
    << "a", ".", "a", "v", "i" >>, << "a", ".", "m", "p", "4", "v" >>,
    << "a" >>, << ".", "m", "p", "4" >>, << "a", "." >>,
    << "a", ".", "m", "p", "4", "/", "b" >>,
    << "a", ".", "w", "e", "b", "m", "/", "b", ".", "M", "P", "4" >> }

CandidatesSwapped == << "H264", "avc1" >>

\* for code in ('avc1', 'H264')
Candidates == << "avc1", "H264" >>

recorderVars == << av_recorder, recording_start_time, recs, rpc, rloc, writer_accepts >>

\* ext = os.path.splitext(self.output_path)[1].lower() and the branch on it
cf_ext ==
  /\ srec.pc = "start"
  /\ LET ext == lower(splitext_ext(srec.output_path)) IN
       srec' = IF ext = << ".", "m", "p", "4" >>
                 THEN [srec EXCEPT !.pc = "test", !.i = 1]
               ELSE IF ext = << ".", "w", "e", "b", "m" >>
                 THEN [srec EXCEPT !.pc = "returned", !.fourcc = "VP80"]
               ELSE [srec EXCEPT !.pc = "returned", !.fourcc = "mp4v"]
  /\ UNCHANGED << camVarsButCodec, recorderVars >>

\* one pass of the loop: test = cv2.VideoWriter(..., fourcc, ...);
\* if test.isOpened(): return fourcc
cf_test ==
  /\ srec.pc = "test"
  /\ LET code == Candidates[srec.i] IN
       srec' = IF writer_accepts[code]
                 THEN [srec EXCEPT !.pc = "returned", !.fourcc = code]
               ELSE IF srec.i < Len(Candidates)
                 THEN [srec EXCEPT !.i = srec.i + 1]
               ELSE [srec EXCEPT !.pc = "fallback"]
  /\ UNCHANGED << camVarsButCodec, recorderVars >>

\* return cv2.VideoWriter_fourcc(*'mp4v') after the loop
cf_fallback ==
  /\ srec.pc = "fallback"
  /\ srec' = [srec EXCEPT !.pc = "returned", !.fourcc = "mp4v"]
  /\ UNCHANGED << camVarsButCodec, recorderVars >>

\* ------------------------------------------------------------------ StreamRecorder.run
loop_forever(stopped) == "connect"

\* while not self.stop_event.is_set(): the finally block follows the loop
loop_test(stopped) == IF stopped THEN "finally" ELSE "connect"

\* while ...: if cap is None or not cap.isOpened():
rn_loop ==
  /\ srec.at = "loop"
  /\ srec' = [srec EXCEPT !.at = IF loop_test(srec.stop_event) = "connect" /\ srec.cap = "open"
                                   THEN "read" ELSE loop_test(srec.stop_event)]
  /\ UNCHANGED << camVarsButCodec, recorderVars >>

\* cap = cv2.VideoCapture(self.stream_url); if not cap.isOpened(): sleep,
\* continue; else width, height and fourcc = self._choose_fourcc()
rn_connect ==
  /\ srec.at = "connect"
  /\ \E opened \in BOOLEAN :
       srec' = IF opened
                 THEN [srec EXCEPT !.cap = "open", !.handles = @ + 1, !.at = "fourcc",
                                   !.pc = "start", !.i = 0, !.fourcc = "none"]
                 ELSE [srec EXCEPT !.cap = "closed", !.at = "sleep"]
  /\ UNCHANGED << camVarsButCodec, recorderVars >>

\* writer = cv2.VideoWriter(self.output_path, fourcc, ...): the writer the
\* name was bound to is deallocated, which releases it;
\* if not writer.isOpened(): cap.release(); cap = None; sleep; continue
rn_writer ==
  /\ srec.at = "fourcc" /\ srec.pc = "returned"
  /\ \E opened \in BOOLEAN :
       LET freed == IF srec.writer = "open" THEN 1 ELSE 0 IN
       srec' = IF opened
                 THEN [srec EXCEPT !.writer = "open", !.handles = @ + 1 - freed,
                         !.writer_opens = IF @ < MaxOpens THEN @ + 1 ELSE @,
                         !.at = "read", !.pc = "none"]
                 ELSE [srec EXCEPT !.writer = "closed", !.cap = "none",
                         !.handles = @ - 1 - freed,
                         !.at = "sleep", !.pc = "none"]
  /\ UNCHANGED << camVarsButCodec, recorderVars >>

backoff_ends(stopped) == "finally"

\* time.sleep(...); continue
backoff(stopped) == "loop"

rn_sleep ==
  /\ srec.at = "sleep"
  /\ srec' = [srec EXCEPT !.at = backoff(srec.stop_event)]
  /\ UNCHANGED << camVarsButCodec, recorderVars >>

\* ret, frame = cap.read(); if not ret or frame is None: sleep(0.1); continue
rn_read ==
  /\ srec.at = "read"
  /\ \E ret \in BOOLEAN :
       srec' = [srec EXCEPT !.at = IF ret /\ srec.cap = "open" THEN "write" ELSE "sleep"]
  /\ UNCHANGED << camVarsButCodec, recorderVars >>

\* writer.write(frame) (raised: cv2 raises, the except clause logs it)
rn_write ==
  /\ srec.at = "write"
  /\ \E raised \in BOOLEAN :
       srec' = [srec EXCEPT !.at = IF raised THEN "finally" ELSE "loop"]
  /\ UNCHANGED << camVarsButCodec, recorderVars >>

release_none(r) == r

\* finally: if cap: cap.release(); if writer: writer.release()
release_all(r) ==
  [r EXCEPT !.cap = IF @ = "none" THEN @ ELSE "closed",
            !.writer = IF @ = "none" THEN @ ELSE "closed",
            !.handles = @ - (IF r.cap = "open" THEN 1 ELSE 0)
                          - (IF r.writer = "open" THEN 1 ELSE 0)]

rn_finally ==
  /\ srec.at = "finally"
  /\ srec' = [release_all(srec) EXCEPT !.at = "ended"]
  /\ UNCHANGED << camVarsButCodec, recorderVars >>

\* rec.stop_event.set() by the thread that stops the recording
stop_event_set ==
  /\ srec.at \notin {"none", "ended"} /\ ~srec.stop_event
  /\ srec' = [srec EXCEPT !.stop_event = TRUE]
  /\ UNCHANGED << camVarsButCodec, recorderVars >>

\* environment: the stream connection is lost and the capture is no longer
\* opened
EnvStreamLost ==
  /\ srec.at \in {"loop", "read", "write", "sleep"} /\ srec.cap = "open"
  /\ srec' = [srec EXCEPT !.cap = "closed", !.handles = @ - 1]
  /\ UNCHANGED << camVarsButCodec, recorderVars >>

\* ------------------------------------------------------------------ SpecWorker:
\* one StreamRecorder thread from start() to its end, with any output path,
\* whatever opens and reads succeed; the thread keeps being scheduled
WorkerPaths == { p \in OutputPaths : lower(splitext_ext(p)) = << ".", "m", "p", "4" >> }
                 \cup { << "a", ".", "w", "e", "b", "m" >> }

InitWorker ==
  /\ Globals /\ RecGlobals /\ NoCache /\ NoProbe
  /\ devState = [d \in Devices |-> "ok"]
  /\ audioPresent = AudioDevs
  /\ fallback_cfg = TRUE
  /\ track = FALSE
  /\ writer_accepts \in [{"avc1", "H264"} -> BOOLEAN]
  /\ \E path \in WorkerPaths :
       srec = [NoRecorder EXCEPT !.output_path = path, !.at = "loop"]

WorkerStep ==
  \/ rn_loop \/ rn_connect \/ cf_ext \/ cf_test \/ cf_fallback \/ rn_writer
  \/ rn_sleep \/ rn_read \/ rn_write \/ rn_finally

NextWorker == WorkerStep \/ stop_event_set \/ EnvStreamLost

SpecWorker == InitWorker /\ [][NextWorker]_vars /\ WF_vars(WorkerStep)

\* ------------------------------------------------------------------ SpecCodec:
\* _choose_fourcc of a StreamRecorder with any of the output paths, whatever
\* the test-opens accept
InitCodec ==
  /\ Globals /\ RecGlobals /\ NoCache /\ NoProbe
  /\ devState = [d \in Devices |-> "ok"]
  /\ audioPresent = AudioDevs
  /\ fallback_cfg = TRUE
  /\ track = FALSE
  /\ writer_accepts \in [{"avc1", "H264"} -> BOOLEAN]
  /\ \E path \in OutputPaths :
       srec = [NoRecorder EXCEPT !.output_path = path, !.pc = "start"]

NextCodec == cf_ext \/ cf_test \/ cf_fallback

SpecCodec == InitCodec /\ [][NextCodec]_vars

\* ------------------------------------------------------------------ SpecRec:
\* the recording engine: start / stop requests on the controller's threads
\* and the recorder threads with their subprocesses
InitRec ==
  /\ Globals /\ RecGlobals /\ NoCache /\ CodecGlobals /\ NoProbe
  /\ devState = [d \in Devices |-> "ok"]
  /\ audioPresent = AudioDevs
  /\ fallback_cfg = TRUE
  /\ track = FALSE

NextRec ==
  \/ \E t \in ReqThreads :
       \/ start_recording(t) \/ sr_check(t) \/ sr_fetch(t) \/ sr_create(t)
       \/ sr_start(t)
       \/ stop_recording(t) \/ st_check(t) \/ st_proc(t) \/ st_join(t)
       \/ st_clear(t)
       \/ camera_view(t)
       \/ RReturn(t)
  \/ \E r \in RecIds : run_popen(r) \/ proc_exit(r) \/ run_end(r)

SpecRec == InitRec /\ [][NextRec]_vars

\* ================================================================== claims
Responded(t, o) == pc[t] = "done" /\ loc[t].op = o

\* C1: in every reachable state at most one capture handle is open in the
\* process, whatever the interleaving of switch, restart, settings update and
\* the reconnect step of the streaming loops.
C1_AtMostOneHandleOpen == Cardinality(OpenHandles) <= 1

\* C2: every access to the capture handle is made under cam_lock, so that
\* while a streaming loop is inside capture.read() (holding cam_lock) the
\* handle it reads is not closed or re-opened under it.
C2_NoReadOverlapsClose ==
  \A t \in Threads :
    (pc[t] = "gf_reading") => (cam_lock = t /\ is_opened(objs[loc[t].self]))

\* C7: when open_camera(i) for a valid index i has returned and nothing else
\* has run since, camera.is_opened() is true exactly if the open of source i
\* succeeded; if it failed no capture handle is left open, and open_camera
\* returned a boolean (no exception escaped).
C7_SwitchOpenIffOpenSucceeded ==
  \A t \in Threads :
    (Responded(t, "switch") /\ loc[t].resp # "400") =>
      /\ loc[t].res \in {"True", "False"}
      /\ camera_open <=> (loc[t].opened = "yes")
      /\ (loc[t].opened # "yes") => (OpenHandles = {})

\* a switch away from an open session whose open failed
C7_Witness ==
  \E t \in Threads :
    /\ Responded(t, "switch") /\ loc[t].opened = "no"
    /\ loc[t].snap.open /\ ~camera_open

\* C8: after a switch that failed with DeviceUnavailable (500), the active
\* index equals the index of the last successfully opened source and the
\* session is closed.
C8_ActiveIdxIsLastOpened ==
  \A t \in Threads :
    (Responded(t, "switch") /\ loc[t].resp = "500" /\ last_ok_idx # -1) =>
      /\ current_idx = last_ok_idx
      /\ ~camera_open

\* C10 as stated: update on a closed session returns false and leaves the
\* other keys of SettingsState alone.
C10_UpdateClosedReturnsFalse ==
  \A t \in Threads :
    (Responded(t, "set_one") /\ ~loc[t].snap.open) =>
      /\ loc[t].resp = "200" /\ loc[t].res = "False"
      /\ \A k \in Keys \ {loc[t].key} : settings_state[k] = loc[t].snap.settings[k]

\* C10 amended: update on a closed session does not raise and leaves the other
\* keys of SettingsState alone; it returns true exactly if its reopen of the
\* session's source succeeded (false with no session object or a failed
\* reopen).
C10_UpdateClosedReopens ==
  \A t \in Threads :
    (Responded(t, "set_one") /\ ~loc[t].snap.open) =>
      /\ loc[t].resp = "200" /\ loc[t].res \in {"True", "False"}
      /\ (loc[t].res = "True") <=> (loc[t].opened = "yes")
      /\ (camera = NoObj) => (loc[t].res = "False")
      /\ \A k \in Keys \ {loc[t].key} : settings_state[k] = loc[t].snap.settings[k]

\* an update that found the session closed and reopened it
C10_Witness ==
  \E t \in Threads :
    /\ Responded(t, "set_one") /\ ~loc[t].snap.open
    /\ loc[t].res = "True" /\ camera_open
    /\ \E k \in Keys \ {loc[t].key} : settings_state[k] # Unset


\* C9: a camera or audio switch answered with IndexOutOfRange (400) has
\* changed nothing: active camera index, capture session, active audio index
\* and relay subprocess are as the request found them, also when
\* /refresh-devices replaces the device lists while the switch runs.
C9_OutOfRangeChangesNothing ==
  \A t \in Threads :
    (pc[t] = "done" /\ loc[t].op \in {"switch", "switch_audio"}
       /\ loc[t].resp = "400") =>
      /\ current_idx = loc[t].snap.idx
      /\ camera_open = loc[t].snap.open
      /\ camera_open => (objs[camera].source = loc[t].snap.src)
      /\ current_audio_idx = loc[t].snap.aidx
      /\ audio_proc = loc[t].snap.proc


\* C5: with a fallback image configured and a source whose open never
\* succeeds (also when no video device is detected at all), generate_frames
\* never ends and never emits a live chunk: the loop stays in its
\* fallback / sleep / reopen cycle.
C5_FallbackLoopNeverEnds ==
  \A t \in Threads :
    (fallback_cfg /\ last_ok_idx = -1 /\ loc[t].op = "viewer") =>
      pc[t] \notin {"gf_raised", "gf_live"}

\* the source that current_idx names in the device list opens and reads
CurrentSourceOk ==
  /\ InRange(current_idx, detected_cameras)
  /\ devState[At(detected_cameras, current_idx).path] = "ok"

\* C6: if from some point on the current source opens and reads, a viewer
\* that keeps pulling eventually receives a live chunk, with or without a
\* fallback image and without any switch or restart request.
C6_ReconnectsEventually ==
  \A t \in Viewers : (<>[]CurrentSourceOk) => <>(pc[t] = "gf_live")

\* C6 for the services that have a fallback image (holds; the streaming loop
\* reopens the source only on its fallback branch)
C6_ReconnectsWithFallback ==
  \A t \in Viewers : (<>[](CurrentSourceOk /\ fallback_cfg)) => <>(pc[t] = "gf_live")


\* recorders whose worker thread is alive
LiveRecorders == { r \in RecIds : is_alive(recs[r]) }

\* C3: under any interleaving of start_recording requests and recorder
\* threads, a start while a session is active spawns nothing: there is never
\* more than one live recorder worker.
C3_AtMostOneRecorder == Cardinality(LiveRecorders) <= 1

\* C4: once stop_recording has answered 'stopped' for a session, no encoder
\* subprocess of that session is alive, at whatever point of the session's
\* life the stop came.
C4_StoppedSessionHasNoProcess ==
  \A r \in RecIds : recs[r].stopped => ~proc_running(recs[r])


\* C11: a stop_recording that finds the engine idle (no session started, the
\* last one already stopped, or its process already exited by itself) answers
\* 'Not recording'.
C11_StopWhenIdleIsNotRecording ==
  \A t \in ReqThreads :
    (rpc[t] = "done" /\ rloc[t].op = "stop" /\ rloc[t].idle)
      => rloc[t].resp = "400_not"


\* C12: under any interleaving of open_audio calls at most one relay
\* subprocess is alive: the relay that audio_proc names is the only one, no
\* relay is ever replaced while it is still running.
C12_AtMostOneRelay == orphans = 0

\* a running relay has been replaced by a switch
C12_Witness ==
  \E t \in Threads :
    /\ pc[t] = "done" /\ loc[t].op = "switch_audio" /\ loc[t].res = "True"
    /\ loc[t].term
    /\ audio_proc.st = "alive"

\* C13: /stream/audio answers 503 exactly when no relay was running when the
\* request was served (never started, exited, terminated, or the last start
\* failed), and a byte stream only when a relay was alive.
C13_AudioStream503UnlessAlive ==
  \A t \in Threads :
    (pc[t] = "done" /\ loc[t].op = "stream_audio")
      => (loc[t].resp = "503" <=> loc[t].snap.proc.st # "alive")


\* C14: while the cache file is younger than its ttl, only an explicit
\* /refresh-devices probes the hardware: no other operation is about to call
\* detect_cameras.
C14_NoProbeWithinTtl ==
  \A t \in Threads :
    (pc[t] = "rd_cams" /\ loc[t].op # "refresh") => ~CacheFresh

\* C15: no read of the device lists returns data discovered ttl or more ago.
C15_ReadsNeverOlderThanTtl ==
  \A t \in Threads :
    (pc[t] = "done" /\ loc[t].op = "list_cameras") => ~loc[t].stale

C17_WritesHoldCamLock ==
  [][(settings_state' # settings_state \/ current_idx' # current_idx)
       => \E t \in Threads : cam_lock = t /\ pc'[t] # pc[t]]_vars


\* viewers inside Camera.read_frame
Reading == { t \in Threads : loc[t].op = "viewer" /\ pc[t] \in {"gf_read", "gf_reading"} }

\* C18: two viewers are never inside Camera.read_frame at the same time.
C18_ViewersReadExclusively == Cardinality(Reading) <= 1

\* one viewer is reading a frame while another waits for the lock
C18_Witness ==
  \E t, u \in Threads :
    /\ t # u
    /\ pc[t] = "gf_reading" /\ cam_lock = t
    /\ loc[u].op = "viewer" /\ pc[u] = "gf_lock"

\* C19: no failure inside an iteration propagates out of generate_frames: no
\* viewer's generator ever ends with an exception.
C19_NoFailurePropagates == \A t \in Threads : pc[t] # "gf_raised"


\* what the claim says _choose_fourcc returns for an extension, given what the
\* test-opens accept
IsMp4(ext) ==
  /\ Len(ext) = 4 /\ ext[1] = "." /\ ext[2] \in {"m", "M"}
  /\ ext[3] \in {"p", "P"} /\ ext[4] = "4"

IsWebm(ext) == lower(ext) = << ".", "w", "e", "b", "m" >>

ClaimedFourcc(ext) ==
  IF IsMp4(ext)
    THEN IF writer_accepts["avc1"] THEN "avc1"
         ELSE IF writer_accepts["H264"] THEN "H264" ELSE "mp4v"
  ELSE IF IsWebm(ext) THEN "VP80" ELSE "mp4v"

\* C20: _choose_fourcc returns, for .mp4 (in any case), the first of 'avc1',
\* 'H264' whose test-open is accepted and 'mp4v' when neither is; for .webm
\* 'VP80'; for any other extension 'mp4v'.
C20_ChooseFourcc ==
  srec.pc = "returned"
    => srec.fourcc = ClaimedFourcc(splitext_ext(srec.output_path))

\* an upper-case .MP4 path whose first test-open was rejected and whose second
\* was accepted
C20_Witness ==
  /\ srec.pc = "returned"
  /\ srec.output_path = << "a", ".", "M", "P", "4" >>
  /\ ~writer_accepts["avc1"] /\ writer_accepts["H264"]
  /\ srec.fourcc = "H264"


\* C21: a retried request leaves the state as the first one left it: a
\* /switch-audio/{idx} that finds the relay already running on idx does not
\* replace the running subprocess.
C21_RetriedAudioSwitchKeepsRelay ==
  \A t \in Threads :
    ( /\ pc[t] = "done" /\ loc[t].op = "switch_audio" /\ loc[t].res = "True"
      /\ loc[t].snap.proc.st = "alive"
      /\ loc[t].snap.aidx = loc[t].idx
      /\ audio_proc.dev = loc[t].snap.proc.dev )
      => ~loc[t].term


\* C22: a streaming loop holds cam_lock only around one frame read: never
\* while it sleeps, never while it is suspended at a yield, and a viewer that
\* has gone does not keep it.
C22_LockOnlyAroundRead ==
  \A t \in Threads :
    /\ (loc[t].op = "viewer" /\ cam_lock = t) => pc[t] \in {"gf_read", "gf_reading"}
    /\ pc[t] = "idle" => cam_lock # t

\* a viewer sleeps after a failed read while another viewer holds the lock
C22_Witness ==
  \E t, u \in Threads :
    /\ pc[t] = "gf_sleep" /\ loc[t].it.rd = "fail"
    /\ loc[u].op = "viewer" /\ cam_lock = u

C24_FlagSetWhenSessionClosed ==
  \A t \in Viewers : loc[t].it.closed => USING_FALLBACK


\* C25 as stated: Camera.update re-opens the handle only when apply_settings
\* failed on a live handle.
C25_ReopenOnlyAfterLiveHandleFailed ==
  \A t \in Threads :
    (Responded(t, "set_one") /\ loc[t].opened # "na") => loc[t].snap.open

\* C25 amended: Camera.update re-opens the handle exactly when apply_settings
\* returned False, which is a rejected write on the live handle or a session
\* whose handle is closed; when apply_settings succeeds the live handle is kept
\* (no re-open), and in both cases the new value is in the session's config.
C25_ReopenIffApplyFailed ==
  \A t \in Threads :
    (Responded(t, "set_one") /\ loc[t].applied # "na") =>
      /\ (loc[t].opened # "na") <=> (loc[t].applied = "False")
      /\ ~loc[t].snap.open => loc[t].applied = "False"
      /\ (loc[t].applied = "True") => (loc[t].snap.open /\ camera_open)
      /\ camera # NoObj /\ objs[camera].config[loc[t].key] = loc[t].val

\* the driver rejected a write on the live handle and the re-open succeeded
C25_Witness ==
  \E t \in Threads :
    /\ Responded(t, "set_one") /\ loc[t].snap.open
    /\ loc[t].applied = "False" /\ loc[t].opened = "yes"
    /\ objs[camera].config[loc[t].key] = loc[t].val


\* C26: open_audio called with a valid index returns a boolean, also when the
\* previous relay does not exit within the bounded wait after terminate: it
\* never raises out of the call.
C26_OpenAudioReturnsBoolean ==
  \A t \in Threads :
    (Responded(t, "switch_audio") /\ loc[t].res # "IndexError") =>
      loc[t].res \in {"True", "False"}


\* C27: a reader running concurrently with refresh_devices never observes the
\* video list of one discovery together with the audio list of another.
C27_ReadersSeeOneDiscovery ==
  \A t \in Threads : Responded(t, "health") => ~loc[t].torn


\* C28: every descriptor in the list that detect_cameras returns is of a
\* device that opened during that probe; a device whose open fails is omitted.
C28_ListedDevicesOpened ==
  [][ \A t \in Threads :
        (pc[t] = "rd_cams" /\ pc'[t] = "rd_audio") =>
          \A i \in 1 .. Len(detected_cameras') :
            devState[detected_cameras'[i].id] = "ok" ]_vars


\* C29: whatever the two listing tools do and print, detect_audio_devices
\* returns a non-empty list that has an entry with path "default", no two
\* entries with the same path, and ids equal to the list positions.
C29_AudioListWellFormed ==
  probe.pc = "returned" =>
    LET devices == probe.devices IN
    /\ devices # << >>
    /\ \E i \in 1 .. Len(devices) : devices[i].path = "default"
    /\ \A i, j \in 1 .. Len(devices) : devices[i].path = devices[j].path => i = j
    /\ \A i \in 1 .. Len(devices) : devices[i].id = i - 1


\* C30: the status query tracks the recording engine: the is_recording it
\* reports is true exactly while the recorder started by start_recording has
\* a live worker.
C30_StatusTracksEngine ==
  \A t \in ReqThreads :
    (rpc[t] = "done" /\ rloc[t].op = "camera") =>
      (rloc[t].is_recording <=> rloc[t].live)


\* C31: when the encoder subprocess could not be spawned the engine is Idle
\* again: a following stop_recording answers 'Not recording'.
C31_StopAfterFailedSpawnIsNotRecording ==
  \A t \in ReqThreads :
    ( /\ rpc[t] = "done" /\ rloc[t].op = "stop" /\ rloc[t].idle
      /\ rloc[t].rec # NoObj /\ recs[rloc[t].rec].st = "aborted" )
      => rloc[t].resp = "400_not"


\* C32: while stop_event is not set a failed connect or a failed writer open
\* does not end the frame-writer worker (it leaves the loop only when the
\* loop test finds stop_event set, or by an exception of the write); once
\* stop_event is set the worker eventually terminates.
C32_WorkerRetriesUntilStopped ==
  /\ [][ (srec.at # "finally" /\ srec'.at = "finally") =>
           (srec.at = "write" \/ (srec.at = "loop" /\ srec.stop_event)) ]_vars
  /\ (srec.stop_event ~> srec.at = "ended")

\* the stop arrives while the worker backs off after a failed connect
C32_Witness == srec.stop_event /\ srec.at = "sleep" /\ srec.cap = "closed"

\* C33: when the frame-writer worker has terminated, every capture and every
\* writer it opened has been released, those opened before a reconnect
\* included.
C33_WorkerReleasesAll == srec.at = "ended" => srec.handles = 0

\* the worker has ended after a session in which it opened the writer twice
C33_Witness == srec.at = "ended" /\ srec.writer_opens = 2 /\ srec.writer = "closed"

\* C34: within one session the writer for the output path is opened at most
\* once; a reconnect re-opens only the capture.
C34_WriterOpenedOnce == srec.writer_opens <= 1


\* C35: whenever no request is being served and the capture session is open,
\* the source it has open is the one at position current_idx of
\* detected_cameras.
C35_ActiveIdxNamesOpenSource ==
  ((\A t \in Threads : pc[t] \in {"idle", "done"}) /\ camera_open) =>
    /\ InRange(current_idx, detected_cameras)
    /\ objs[camera].source = At(detected_cameras, current_idx).path


\* C36: once every request in flight has returned, the session's stored
\* snapshot (Camera.config) and settings_state hold the same value for every
\* key, whatever the interleaving of the requests.
C36_ConfigAgreesWithSettingsState ==
  ((\A t \in Threads : pc[t] \in {"idle", "done"}) /\ started /\ camera # NoObj) =>
    \A k \in Keys : objs[camera].config[k] = settings_state[k]


\* C37: once /switch/{j} has answered success, and while no further switch or
\* restart is issued, the active index is j and an open session is on source
\* j, whatever the streaming loops that were in their reconnect step do.
C37_SwitchNotUndone ==
  (Responded(Main, "switch") /\ loc[Main].resp = "200") =>
    /\ current_idx = loc[Main].idx
    /\ camera_open =>
         ( /\ InRange(current_idx, detected_cameras)
           /\ objs[camera].source = At(detected_cameras, current_idx).path )


\* C38: the id of every descriptor in the discovered video list equals its
\* position in the list, so that /switch/{id} selects that descriptor.
C38_CameraIdIsPosition ==
  \A i \in 1 .. Len(detected_cameras) : detected_cameras[i].id = i - 1


C40_AppliedMeansAccepted ==
  \A t \in Threads :
    (Responded(t, "set_one") /\ loc[t].res = "True") => loc[t].accepted = "True"

====
